---- MODULE Spec2Model ----
(***************************************************************************)
(* SoarZip front end: the browse-state subsystem.                          *)
(*                                                                         *)
(*   - NavigationHistory (services/navigationService.ts)                   *)
(*   - application state and the loading flag (services/appState.ts)       *)
(*   - the file list, its selection and its own loading flag               *)
(*     (ui/fileExplorer.ts)                                                *)
(*   - the controller functions of ui/uiManager.ts, setup/navigation.ts,   *)
(*     setup/toolbar.ts and services/archiveService.ts, with every await   *)
(*     on the backend as a suspension point of a task.                     *)
(*                                                                         *)
(* Strings that the code takes apart (archive-internal paths) are          *)
(* sequences of one-character strings, so that slicing, searching and      *)
(* concatenation are computed and not assumed.  Indices are 0-based as in  *)
(* the source; a TLA+ sequence s holds the source's s[i] at s[i + 1].      *)
(***************************************************************************)
EXTENDS Integers, Sequences, FiniteSets, TLC

VARIABLES
  history,              \* NavigationHistory.history
  currentIndex,         \* NavigationHistory.currentIndex
  currentArchivePath,   \* appState.currentArchivePath
  currentFiles,         \* appState.currentFiles
  isLoading,            \* appState.isLoading (the loading gate)
  flIsLoading,          \* fileExplorer.isLoading
  selectedFiles,        \* fileExplorer.selectedFiles
  lastClickedIndex,     \* fileExplorer.lastClickedIndex
  currentRenderedFiles, \* fileExplorer.currentRenderedFiles
  pathNav,              \* the folder the breadcrumb was last drawn for, None if the placeholder
  dom,                  \* the .file-item elements of .file-list-body: (data-filename, data-index)
  timers,               \* pending setTimeout(() => renderBatch(endIndex)) closures
  view,                 \* which page is shown: "home" or "browser"
  toolbarEnabled,       \* whether the archive-dependent toolbar buttons are enabled
  clipboard,            \* sessionStorage clipboardOperation: "none", "cut" or "copy"
  tasks,                \* async functions suspended at an await on the backend
  ev,                   \* the handler or method that ran last
  notified,             \* the notification raised by that step ("none" if none)
  arg,                  \* the path argument of the last NavigationHistory call
  ret,                  \* what the last NavigationHistory call returned
  pre,                  \* (history, currentIndex) before the last NavigationHistory call
  rt                    \* position in the visit/back/forward round-trip run

vars == <<history, currentIndex, currentArchivePath, currentFiles, isLoading,
          flIsLoading, selectedFiles, lastClickedIndex, currentRenderedFiles, pathNav,
          dom, timers, view, toolbarEnabled, clipboard,
          tasks, ev, notified, arg, ret, pre, rt>>

navVars == <<history, currentIndex>>
appVars == <<currentArchivePath, currentFiles, isLoading>>
listVars == <<flIsLoading, selectedFiles, lastClickedIndex, currentRenderedFiles, pathNav,
              dom, timers>>
shellVars == <<view, toolbarEnabled, clipboard>>
harnessVars == <<arg, ret, pre, rt>>

----------------------------------------------------------------------------
(* Bounds of the model *)

\* longest history the navigation actions are allowed to build
MaxHist == 3

\* the same for the archive with nested directories
MaxHistDeep == 4

\* number of async functions that may be suspended at once
MaxTasks == 2

\* longest run of visits in the round-trip scenario
MaxVisits == 3

----------------------------------------------------------------------------
(* Strings as character sequences *)

Str0 == << >>
Slash == "/"

\* s.endsWith('/')
endsWithSlash(s) == Len(s) > 0 /\ s[Len(s)] = Slash

\* s.slice(0, -1)
dropLast(s) == SubSeq(s, 1, Len(s) - 1)

\* s.lastIndexOf('/'), 0-based, -1 when there is none
lastIndexOfSlash(s) ==
  LET hits == {i \in 1..Len(s) : s[i] = Slash}
  IN  IF hits = {} THEN -1 ELSE (CHOOSE i \in hits : \A j \in hits : j <= i) - 1

\* s.includes('/')
includesSlash(s) == \E i \in 1..Len(s) : s[i] = Slash

\* s.startsWith(p)
startsWith(s, p) == Len(p) <= Len(s) /\ SubSeq(s, 1, Len(p)) = p

\* s.replace(/^\/+/, '')
RECURSIVE stripLeadingSlashes(_)
stripLeadingSlashes(s) ==
  IF Len(s) > 0 /\ s[1] = Slash THEN stripLeadingSlashes(Tail(s)) ELSE s

----------------------------------------------------------------------------
(* NavigationHistory: the methods as functions of (history, currentIndex) *)

\* string | null results: None is null, Some(p) is the string p
None == << >>
Some(p) == <<p>>

\* this.history[i], undefined when i is no index of the array
historyAt(h, i) == IF 0 <= i /\ i < Len(h) THEN Some(h[i + 1]) ELSE None

addPathNoTruncate(h, i, path) ==
  IF historyAt(h, i) # Some(path)
    THEN [history |-> h \o <<path>>, currentIndex |-> Len(h)]
    ELSE [history |-> h, currentIndex |-> i]

addPathAlwaysPushes(h, i, path) ==
  LET h1 == IF i < Len(h) - 1 THEN SubSeq(h, 1, i + 1) ELSE h
  IN  [history |-> h1 \o <<path>>, currentIndex |-> Len(h1)]

addPath(h, i, path) ==
  LET h1 == IF i < Len(h) - 1 THEN SubSeq(h, 1, i + 1) ELSE h
  IN  IF historyAt(h1, i) # Some(path)
        THEN [history |-> h1 \o <<path>>, currentIndex |-> Len(h1)]
        ELSE [history |-> h1, currentIndex |-> i]

getPreviousPathUnguarded(h, i) ==
  [currentIndex |-> i - 1, ret |-> historyAt(h, i - 1)]

getPreviousPathStale(h, i) ==
  IF i > 0
    THEN [currentIndex |-> i - 1, ret |-> Some(h[i + 1])]
    ELSE [currentIndex |-> i, ret |-> None]

getPreviousPath(h, i) ==
  IF i > 0
    THEN [currentIndex |-> i - 1, ret |-> Some(h[i])]
    ELSE [currentIndex |-> i, ret |-> None]

getNextPathStopsShort(h, i) ==
  IF i < Len(h) - 2
    THEN [currentIndex |-> i + 1, ret |-> Some(h[i + 2])]
    ELSE [currentIndex |-> i, ret |-> None]

getNextPath(h, i) ==
  IF i < Len(h) - 1
    THEN [currentIndex |-> i + 1, ret |-> Some(h[i + 2])]
    ELSE [currentIndex |-> i, ret |-> None]

\* getParentPath that leaves out the slash after the parent
getParentPathDropsSlash(currentPath) ==
  IF currentPath = Str0 THEN Str0
  ELSE LET normalizedPath == IF endsWithSlash(currentPath)
                               THEN dropLast(currentPath) ELSE currentPath
           lastSlashIndex == lastIndexOfSlash(normalizedPath)
       IN  IF lastSlashIndex < 0 THEN Str0
           ELSE IF lastSlashIndex = 0 THEN <<Slash>>
           ELSE SubSeq(normalizedPath, 1, lastSlashIndex)

\* the parent taken to be the root always
getParentPathRoot(currentPath) == Str0

getParentPath(currentPath) ==
  IF currentPath = Str0 THEN Str0
  ELSE LET normalizedPath == IF endsWithSlash(currentPath)
                               THEN dropLast(currentPath) ELSE currentPath
           lastSlashIndex == lastIndexOfSlash(normalizedPath)
       IN  IF lastSlashIndex < 0 THEN Str0
           ELSE IF lastSlashIndex = 0 THEN <<Slash>>
           ELSE SubSeq(normalizedPath, 1, lastSlashIndex) \o <<Slash>>

\* navigationHistory.getParentPath(currentPath), called
getParentPathCall(currentPath) == getParentPath(currentPath)

\* reset that empties the history without entering the initial path
resetWithoutEntry(initialPath) == [history |-> << >>, currentIndex |-> -1]

reset(initialPath) == [history |-> <<initialPath>>, currentIndex |-> 0]

canGoBack(h, i) == i > 0

canGoForward(h, i) == i < Len(h) - 1

getCurrentPath(h, i) == IF i >= 0 /\ i < Len(h) THEN h[i + 1] ELSE Str0

\* normalizeFolderPath that leaves leading slashes in place
normalizeFolderPathKeepsLeading(folderPath) ==
  IF folderPath = Str0 THEN Str0
  ELSE IF ~endsWithSlash(folderPath) THEN folderPath \o <<Slash>>
  ELSE folderPath

normalizeFolderPath(folderPath) ==
  IF folderPath = Str0 THEN Str0
  ELSE LET normalizedPath == stripLeadingSlashes(folderPath)
       IN  IF normalizedPath # Str0 /\ ~endsWithSlash(normalizedPath)
             THEN normalizedPath \o <<Slash>>
             ELSE normalizedPath

----------------------------------------------------------------------------
(* The NavigationHistory class on its own: any sequence of calls *)

\* folder paths handed to the class: "", "x/", "x/y/", "z/"
NavPaths == { Str0, <<"x", "/">>, <<"x", "/", "y", "/">>, <<"z", "/">> }

NoCall == [history |-> << >>, currentIndex |-> -1]

RtIdle == [phase |-> "off", n |-> 0, k |-> 0, j |-> 0, last |-> Str0, saved |-> NoCall]

\* a slot of tasks that holds no suspended function
NoTask == [kind |-> "none", pc |-> "done", arch |-> "", cut |-> FALSE]

\* new NavigationHistory(): history = [], currentIndex = -1
InitHistory ==
  /\ history = << >>
  /\ currentIndex = -1

InitRest ==
  /\ currentArchivePath = ""
  /\ currentFiles = << >>
  /\ isLoading = FALSE
  /\ flIsLoading = FALSE
  /\ selectedFiles = {}
  /\ lastClickedIndex = -1
  /\ currentRenderedFiles = << >>
  /\ pathNav = None
  /\ dom = {}
  /\ timers = {}
  /\ view = "home"
  /\ toolbarEnabled = FALSE
  /\ clipboard = "none"
  /\ tasks = [t \in 1..MaxTasks |-> NoTask]
  /\ ev = "init"
  /\ notified = "none"
  /\ arg = Str0
  /\ ret = None
  /\ pre = NoCall

InitNav == InitHistory /\ InitRest /\ rt = RtIdle

Snapshot == [history |-> history, currentIndex |-> currentIndex]

NavFrame == UNCHANGED <<appVars, listVars, shellVars, tasks, notified, rt>>

CallReset(p) ==
  /\ history' = reset(p).history
  /\ currentIndex' = reset(p).currentIndex
  /\ ev' = "reset" /\ arg' = p /\ ret' = None /\ pre' = Snapshot
  /\ NavFrame

CallAddPath(p) ==
  LET r == addPath(history, currentIndex, p)
  IN  /\ Len(r.history) <= MaxHist
      /\ history' = r.history
      /\ currentIndex' = r.currentIndex
      /\ ev' = "addPath" /\ arg' = p /\ ret' = None /\ pre' = Snapshot
      /\ NavFrame

CallGetPreviousPath ==
  LET r == getPreviousPath(history, currentIndex)
  IN  /\ currentIndex' = r.currentIndex
      /\ ret' = r.ret
      /\ ev' = "getPreviousPath" /\ arg' = Str0 /\ pre' = Snapshot
      /\ UNCHANGED history
      /\ NavFrame

CallGetNextPath ==
  LET r == getNextPath(history, currentIndex)
  IN  /\ currentIndex' = r.currentIndex
      /\ ret' = r.ret
      /\ ev' = "getNextPath" /\ arg' = Str0 /\ pre' = Snapshot
      /\ UNCHANGED history
      /\ NavFrame

NextNav ==
  \/ \E p \in NavPaths : CallReset(p)
  \/ \E p \in NavPaths : CallAddPath(p)
  \/ CallGetPreviousPath
  \/ CallGetNextPath

SpecNav == InitNav /\ [][NextNav]_vars

----------------------------------------------------------------------------
(* The round trip: visits with no two consecutive equal, then backs, then *)
(* as many forwards.  rt.n counts the visits, rt.j the backs, rt.k the    *)
(* forwards; rt.last is the last path visited and rt.saved the history    *)
(* when the first back was called.                                        *)

InitRT ==
  /\ InitHistory
  /\ InitRest
  /\ rt = [phase |-> "visit", n |-> 0, k |-> 0, j |-> 0, last |-> Str0, saved |-> NoCall]

RtFrame == UNCHANGED <<appVars, listVars, shellVars, tasks, notified>>

RtReset(p) ==
  /\ rt.phase = "visit" /\ rt.n = 0 /\ ev = "init"
  /\ history' = reset(p).history
  /\ currentIndex' = reset(p).currentIndex
  /\ ev' = "reset" /\ arg' = p /\ ret' = None /\ pre' = Snapshot
  /\ UNCHANGED rt
  /\ RtFrame

RtVisit(p) ==
  LET r == addPath(history, currentIndex, p)
  IN  /\ rt.phase = "visit" /\ rt.n < MaxVisits
      /\ rt.n > 0 => p # rt.last
      /\ history' = r.history
      /\ currentIndex' = r.currentIndex
      /\ ev' = "addPath" /\ arg' = p /\ ret' = None /\ pre' = Snapshot
      /\ rt' = [rt EXCEPT !.n = @ + 1, !.last = p]
      /\ RtFrame

RtBack ==
  LET r == getPreviousPath(history, currentIndex)
  IN  /\ rt.phase \in {"visit", "back"}
      /\ rt.j + 1 <= rt.n - 1
      /\ currentIndex' = r.currentIndex
      /\ ret' = r.ret
      /\ ev' = "getPreviousPath" /\ arg' = Str0 /\ pre' = Snapshot
      /\ rt' = [rt EXCEPT !.phase = "back", !.j = @ + 1,
                          !.saved = IF rt.phase = "visit" THEN Snapshot ELSE @]
      /\ UNCHANGED history
      /\ RtFrame

RtForward ==
  LET r == getNextPath(history, currentIndex)
  IN  /\ rt.phase \in {"back", "forward"}
      /\ rt.k < rt.j
      /\ currentIndex' = r.currentIndex
      /\ ret' = r.ret
      /\ ev' = "getNextPath" /\ arg' = Str0 /\ pre' = Snapshot
      /\ rt' = [rt EXCEPT !.phase = "forward", !.k = @ + 1]
      /\ UNCHANGED history
      /\ RtFrame

NextRT ==
  \/ \E p \in NavPaths : RtReset(p)
  \/ \E p \in NavPaths : RtVisit(p)
  \/ RtBack
  \/ RtForward

SpecRT == InitRT /\ [][NextRT]_vars

----------------------------------------------------------------------------
(* Claims about NavigationHistory *)

HistoryInRange ==
  /\ Len(history) > 0
  /\ 0 <= currentIndex
  /\ currentIndex < Len(history)

\* C6: reset leaves a non-empty history with 0 <= currentIndex < history.length,
\* and from then on every reset, addPath, getPreviousPath and getNextPath keeps it so.
C6_CursorInRange ==
  [][ /\ ev' = "reset" => HistoryInRange'
      /\ HistoryInRange => HistoryInRange' ]_vars

\* back was refused at the first entry and the history stayed as it was
C6_Witness ==
  /\ ev = "getPreviousPath" /\ ret = None
  /\ pre.currentIndex = 0 /\ Len(pre.history) >= 2
  /\ HistoryInRange

\* C7: addPath(path) with path = history[currentIndex] changes neither history
\* (the entries after currentIndex included) nor currentIndex.
C7_SameVisitNoOp ==
  [][ (ev' = "addPath" /\ historyAt(history, currentIndex) = Some(arg'))
        => (history' = history /\ currentIndex' = currentIndex) ]_vars

\* C8: addPath(path) with path # history[currentIndex] leaves
\* history[0..currentIndex] followed by path, with currentIndex at the last entry,
\* so canGoForward() is false.
C8_VisitTruncatesAndAppends ==
  [][ (ev' = "addPath" /\ historyAt(history, currentIndex) # Some(arg'))
        => /\ history' = SubSeq(history, 1, currentIndex + 1) \o <<arg'>>
           /\ currentIndex' = Len(history') - 1
           /\ ~canGoForward(history', currentIndex') ]_vars

\* [a,b,c] went back to b, then visit(d) gave [a,b,d] at index 2
C8_Witness ==
  /\ ev = "addPath" /\ arg = <<"z", "/">>
  /\ pre = [history |-> <<Str0, <<"x", "/">>, <<"x", "/", "y", "/">>>>, currentIndex |-> 1]
  /\ history = <<Str0, <<"x", "/">>, <<"z", "/">>>>
  /\ currentIndex = 2

\* C9: after n visits with no two consecutive equal, k <= n - 1 calls of
\* getPreviousPath followed by k calls of getNextPath give back the same history and
\* currentIndex, and getCurrentPath() is the last path visited.
C9_BackForwardRoundTrip ==
  (rt.phase = "forward" /\ rt.k = rt.j)
    => /\ Snapshot = rt.saved
       /\ getCurrentPath(history, currentIndex) = rt.last

\* two backs and two forwards over three visits
C9_Witness ==
  /\ rt.phase = "forward" /\ rt.n = 3 /\ rt.j = 2 /\ rt.k = 2
  /\ Len(history) = 3

\* C10: getPreviousPath returns a path exactly when currentIndex > 0 held, then
\* currentIndex is one less and the entry there is returned; otherwise it returns
\* null and changes nothing.  getNextPath likewise with
\* currentIndex < history.length - 1.  Neither changes history.
C10_BackForwardContract ==
  [][ /\ ev' = "getPreviousPath" =>
           /\ history' = history
           /\ IF canGoBack(history, currentIndex)
                THEN /\ currentIndex' = currentIndex - 1
                     /\ ret' = historyAt(history, currentIndex')
                     /\ ret' # None
                ELSE currentIndex' = currentIndex /\ ret' = None
      /\ ev' = "getNextPath" =>
           /\ history' = history
           /\ IF canGoForward(history, currentIndex)
                THEN /\ currentIndex' = currentIndex + 1
                     /\ ret' = historyAt(history, currentIndex')
                     /\ ret' # None
                ELSE currentIndex' = currentIndex /\ ret' = None ]_vars

\* back from index 2 returned the entry at index 1
C10_Witness ==
  /\ ev = "getPreviousPath"
  /\ pre.currentIndex = 2 /\ currentIndex = 1
  /\ ret = Some(history[2])
  /\ history = pre.history

\* C11: in every reachable state no two adjacent entries of the history are
\* equal (the same path may come back further apart).
C11_NoAdjacentDuplicates ==
  \A k \in 1..(Len(history) - 1) : history[k] # history[k + 1]

\* addPath brought a path back that the history already holds two entries
\* earlier
C11_Witness ==
  /\ ev = "addPath"
  /\ Len(history) = 3
  /\ currentIndex = 2
  /\ history[1] = history[3]

----------------------------------------------------------------------------
(* Archive entries, the folder filter and the sort (services/fileService.ts) *)

\* FileItem: name is the full path inside the archive
File(n, d) == [name |-> n, is_dir |-> d]

\* s.replace(/^\/\/|\/$/, ''): the first match only, a leading "//" or else a
\* trailing "/"
stripOnce(s) ==
  IF Len(s) >= 2 /\ s[1] = Slash /\ s[2] = Slash THEN SubSeq(s, 3, Len(s))
  ELSE IF endsWithSlash(s) THEN dropLast(s)
  ELSE s

\* the predicate without the direct-child test
shouldIncludeDescendants(file, currentFolderNormalized) ==
  LET relativePath == stripOnce(file.name)
  IN  IF currentFolderNormalized = Str0
        THEN ~includesSlash(relativePath)
        ELSE startsWith(relativePath, currentFolderNormalized \o <<Slash>>)

\* the predicate of files.filter(...) in filterFilesByFolder
shouldInclude(file, currentFolderNormalized) ==
  LET relativePath == stripOnce(file.name)
  IN  IF currentFolderNormalized = Str0
        THEN ~includesSlash(relativePath)
        ELSE LET prefix == currentFolderNormalized \o <<Slash>>
                 startsWithCurrentFolder == startsWith(relativePath, prefix)
                 isDirectChild ==
                   startsWithCurrentFolder
                   /\ ~includesSlash(SubSeq(relativePath, Len(prefix) + 1, Len(relativePath)))
             IN  startsWithCurrentFolder /\ isDirectChild

\* Array.prototype.filter: the elements that satisfy the predicate, in order
RECURSIVE filterSeq(_, _)
filterSeq(files, folder) ==
  IF files = << >> THEN << >>
  ELSE (IF shouldInclude(Head(files), folder) THEN <<Head(files)>> ELSE << >>)
         \o filterSeq(Tail(files), folder)

filterFilesByFolder(files, currentFolder) ==
  IF Len(files) = 0 THEN << >>
  ELSE filterSeq(files, stripOnce(currentFolder))

\* s.split('/').filter(Boolean).length: the number of non-empty pieces
segmentCount(s) ==
  Cardinality({ i \in 1..Len(s) : s[i] # Slash /\ (i = 1 \/ s[i - 1] = Slash) })

\* the predicate of files.filter(...) in getFileStats
statsInclude(file, currentFolder) ==
  IF currentFolder = Str0
    THEN \/ ~includesSlash(file.name)
         \/ (segmentCount(file.name) = 1 /\ endsWithSlash(file.name))
    ELSE /\ startsWith(file.name, currentFolder)
         /\ \/ file.name = currentFolder
            \/ segmentCount(SubSeq(file.name, Len(currentFolder) + 1, Len(file.name))) <= 1

\* getFileStats(files, currentFolder).count (the entries carry no size here,
\* totalSize is left out)
getFileStats(files, currentFolder) ==
  [count |-> Len(SelectSeq(files, LAMBDA file : statsInclude(file, currentFolder)))]

\* collation order of the characters that occur in entry names
charRank(c) ==
  CASE c = "/" -> 0
    [] c = "w" -> 1
    [] c = "x" -> 2
    [] c = "y" -> 3
    [] c = "z" -> 4

\* a.localeCompare(b): negative, zero or positive
RECURSIVE localeCompare(_, _)
localeCompare(a, b) ==
  IF a = << >> /\ b = << >> THEN 0
  ELSE IF a = << >> THEN -1
  ELSE IF b = << >> THEN 1
  ELSE IF charRank(Head(a)) < charRank(Head(b)) THEN -1
  ELSE IF charRank(Head(a)) > charRank(Head(b)) THEN 1
  ELSE localeCompare(Tail(a), Tail(b))

\* the comparator without the directories-first rule
compareFilesByNameOnly(a, b) == localeCompare(a.name, b.name)

\* the comparator of sortFiles
compareFiles(a, b) ==
  IF a.is_dir # b.is_dir THEN (IF a.is_dir THEN -1 ELSE 1)
  ELSE localeCompare(a.name, b.name)

\* insert x behind every element that does not compare greater (a stable sort)
RECURSIVE insertSorted(_, _)
insertSorted(sorted, x) ==
  IF sorted = << >> THEN <<x>>
  ELSE IF compareFiles(Head(sorted), x) <= 0
    THEN <<Head(sorted)>> \o insertSorted(Tail(sorted), x)
    ELSE <<x>> \o sorted

RECURSIVE sortFiles(_)
sortFiles(files) ==
  IF files = << >> THEN << >>
  ELSE insertSorted(sortFiles(SubSeq(files, 1, Len(files) - 1)), files[Len(files)])

\* a call sortFiles(files): the array returned and the argument array after
\* the call ([...files] sorts a copy)
sortFilesCall(files) == [result |-> sortFiles(files), files |-> files]

----------------------------------------------------------------------------
(* The backend: archives on disk and what open_archive answers for them *)

\* archive files the user can pick
Archives == {"A"}

PathX == <<"x", "/">>
PathXY == <<"x", "/", "y">>
PathZ == <<"z">>

PathW == <<"w">>

\* the entry lists open_archive may answer for an archive; archive M is one
\* whose content the mutation commands change
Listings(a) ==
  IF a = "A"
    THEN { <<File(PathZ, FALSE), File(PathXY, FALSE), File(PathX, TRUE)>> }
  ELSE IF a = "M"
    THEN { <<File(PathZ, FALSE), File(PathXY, FALSE), File(PathX, TRUE)>>,
           <<File(PathZ, FALSE), File(PathXY, FALSE), File(PathX, TRUE), File(PathW, FALSE)>> }
  ELSE {}

----------------------------------------------------------------------------
(* The controller.  A handler runs to its first await on the backend in one *)
(* step; the function then waits in tasks until the backend settles the   *)
(* call, and its continuation runs in one step up to the next await or to *)
(* its end.  A dialog (file picker, confirm, input) and the handler code  *)
(* after it are one step: the step the user confirms the dialog in.       *)

Init == InitHistory /\ InitRest /\ rt = RtIdle

Free == {t \in 1..MaxTasks : tasks[t].kind = "none"}

\* start an async function suspended at pc
spawn(kind, pc, arch, cut) ==
  LET t == CHOOSE t \in Free : \A u \in Free : t <= u
  IN  [tasks EXCEPT ![t] = [kind |-> kind, pc |-> pc, arch |-> arch, cut |-> cut]]

\* the async function of slot t has returned
finish(t) == [tasks EXCEPT ![t] = NoTask]

\* number of items updateFileList renders per batch
BATCH_SIZE == 100

\* appendFileItem for files[startIndex .. endIndex - 1]: each element carries
\* data-filename = file.name and data-index = its index in files
fileItems(files, startIndex, endIndex) ==
  { [name |-> files[k + 1].name, index |-> k] : k \in startIndex..(endIndex - 1) }

\* renderBatch(startIndex) of the render pass over files, run on the list body d
\* with the pending timeouts tm: appends one batch and, if entries remain,
\* schedules the next batch of the same pass
renderBatch(d, tm, files, startIndex) ==
  LET endIndex == IF startIndex + BATCH_SIZE < Len(files)
                    THEN startIndex + BATCH_SIZE ELSE Len(files)
  IN  [dom |-> d \cup fileItems(files, startIndex, endIndex),
       timers |-> IF endIndex < Len(files)
                    THEN tm \cup {[files |-> files, startIndex |-> endIndex]}
                    ELSE tm]

\* updateFileList with the selection left as it was
updateFileListKeepsSelection(files) ==
  LET r == IF Len(files) = 0 THEN [dom |-> {}, timers |-> timers]
           ELSE renderBatch({}, timers, files, 0)
  IN  /\ currentRenderedFiles' = files
      /\ UNCHANGED <<selectedFiles, lastClickedIndex>>
      /\ dom' = r.dom
      /\ timers' = r.timers

\* updateFileList that clears the selection and leaves the anchor
updateFileListKeepsAnchor(files) ==
  LET r == IF Len(files) = 0 THEN [dom |-> {}, timers |-> timers]
           ELSE renderBatch({}, timers, files, 0)
  IN  /\ currentRenderedFiles' = files
      /\ selectedFiles' = {}
      /\ UNCHANGED lastClickedIndex
      /\ dom' = r.dom
      /\ timers' = r.timers

\* updateFileList adding the list to the one cached before
updateFileListAppends(files) ==
  LET all == currentRenderedFiles \o files
      r == IF Len(all) = 0 THEN [dom |-> {}, timers |-> timers]
           ELSE renderBatch({}, timers, all, 0)
  IN  /\ currentRenderedFiles' = all
      /\ selectedFiles' = {}
      /\ lastClickedIndex' = -1
      /\ dom' = r.dom
      /\ timers' = r.timers

\* updateFileList(files, ...): caches the list, clears the selection, empties
\* the list body and renders the first batch.  Timeouts of earlier passes
\* stay pending.
updateFileList(files) ==
  LET r == IF Len(files) = 0 THEN [dom |-> {}, timers |-> timers]
           ELSE renderBatch({}, timers, files, 0)
  IN  /\ currentRenderedFiles' = files
      /\ selectedFiles' = {}
      /\ lastClickedIndex' = -1
      /\ dom' = r.dom
      /\ timers' = r.timers

\* a pending timeout fires: the next batch of the pass that scheduled it
RenderBatchFires(t) ==
  /\ t \in timers
  /\ LET r == renderBatch(dom, timers \ {t}, t.files, t.startIndex)
     IN  dom' = r.dom /\ timers' = r.timers
  /\ UNCHANGED <<flIsLoading, selectedFiles, lastClickedIndex, currentRenderedFiles, pathNav>>

\* refreshUI(), as far as it assigns state: updateFileList(sortFiles(
\* filterFilesByFolder(getCurrentFiles(), getCurrentPath()))).  It reads the
\* state the handler has already written.
refreshUI ==
  /\ \E files \in { sortFiles(filterFilesByFolder(currentFiles',
                                                  getCurrentPath(history', currentIndex'))) } :
       updateFileList(files)
  /\ pathNav' = IF currentArchivePath' = "" THEN None
                ELSE Some(getCurrentPath(history', currentIndex'))

NavResult(h, i, refreshed) == [history |-> h, currentIndex |-> i, refreshed |-> refreshed]

navigateToFolderUnguarded(loading, h, i, folderPath) ==
  LET r == addPath(h, i, normalizeFolderPath(folderPath))
  IN  NavResult(r.history, r.currentIndex, TRUE)

\* navigateToFolder that hands folderPath to addPath as it came
navigateToFolderRaw(loading, h, i, folderPath) ==
  IF loading THEN NavResult(h, i, FALSE)
  ELSE LET r == addPath(h, i, folderPath)
       IN  NavResult(r.history, r.currentIndex, TRUE)

\* navigateToFolder(folderPath): what it does to the history and whether it
\* reaches refreshUI()
navigateToFolder(loading, h, i, folderPath) ==
  IF loading THEN NavResult(h, i, FALSE)
  ELSE LET r == addPath(h, i, normalizeFolderPath(folderPath))
       IN  NavResult(r.history, r.currentIndex, TRUE)

\* the longest history explored: the archive with nested directories is
\* browsed on its own and one level further
HistoryBound == IF currentArchivePath = "D" THEN MaxHistDeep ELSE MaxHist

\* write a navigateToFolder result into the state
applyNav(r) ==
  /\ Len(r.history) <= HistoryBound
  /\ history' = r.history
  /\ currentIndex' = r.currentIndex
  /\ UNCHANGED <<appVars, flIsLoading>>
  /\ IF r.refreshed THEN refreshUI
     ELSE UNCHANGED <<selectedFiles, lastClickedIndex, currentRenderedFiles, pathNav, dom, timers>>

AppFrame == UNCHANGED <<shellVars, tasks, harnessVars>>

\* Back button (setupNavButtons), as far as it assigns state
goBack ==
  IF isLoading \/ ~canGoBack(history, currentIndex)
       THEN UNCHANGED <<navVars, appVars, listVars>>
       ELSE LET r == getPreviousPath(history, currentIndex)
            IN  /\ currentIndex' = r.currentIndex
                /\ UNCHANGED <<history, appVars, flIsLoading>>
                /\ IF r.ret # None THEN refreshUI
                   ELSE UNCHANGED <<selectedFiles, lastClickedIndex, currentRenderedFiles, pathNav, dom, timers>>

\* Forward button (setupNavButtons), as far as it assigns state
goForward ==
  IF isLoading \/ ~canGoForward(history, currentIndex)
       THEN UNCHANGED <<navVars, appVars, listVars>>
       ELSE LET r == getNextPath(history, currentIndex)
            IN  /\ currentIndex' = r.currentIndex
                /\ UNCHANGED <<history, appVars, flIsLoading>>
                /\ IF r.ret # None THEN refreshUI
                   ELSE UNCHANGED <<selectedFiles, lastClickedIndex, currentRenderedFiles, pathNav, dom, timers>>

\* Up button (setupNavButtons), as far as it assigns state
goUp ==
  LET currentPath == getCurrentPath(history, currentIndex)
  IN  IF isLoading \/ currentPath = Str0
        THEN UNCHANGED <<navVars, appVars, listVars>>
        ELSE applyNav(navigateToFolder(isLoading, history, currentIndex,
                                       getParentPath(currentPath)))

BackClick ==
  /\ ev' = "navigate" /\ notified' = "none"
  /\ goBack
  /\ AppFrame

ForwardClick ==
  /\ ev' = "navigate" /\ notified' = "none"
  /\ goForward
  /\ AppFrame

UpClick ==
  /\ ev' = "navigate" /\ notified' = "none"
  /\ goUp
  /\ AppFrame

\* currentFolder.split('/').filter(s => s) joined again with a '/' after each
\* segment: the value of currentPath when updatePathNavigation returns
RECURSIVE joinSegments(_, _)
joinSegments(s, atStart) ==
  IF s = Str0 THEN (IF atStart THEN Str0 ELSE <<Slash>>)
  ELSE IF Head(s) = Slash
    THEN (IF atStart THEN Str0 ELSE <<Slash>>) \o joinSegments(Tail(s), TRUE)
  ELSE <<Head(s)>> \o joinSegments(Tail(s), FALSE)

\* the paths the breadcrumb items of updatePathNavigation navigate to: '' for
\* the archive item; every segment's listener reads the one variable
\* currentPath, which holds the whole cumulative path once the loop is done
breadcrumbs(currentFolder) ==
  {Str0} \cup (IF currentFolder = Str0 THEN {} ELSE {joinSegments(currentFolder, TRUE)})

\* a click on an item of the breadcrumb drawn by the last refreshUI():
\* onFolderClick = navigateToFolder
BreadcrumbClick(folderPath) ==
  /\ pathNav # None
  /\ folderPath \in breadcrumbs(pathNav[1])
  /\ ev' = "navigate" /\ notified' = "none"
  /\ applyNav(navigateToFolder(isLoading, history, currentIndex, folderPath))
  /\ AppFrame

\* handleFileListDblClick on the item with data-index i, as far as it assigns
\* state: the onFileDblClick callback of refreshUI, then the default
\* behaviour; both call navigateToFolder
handleFileListDblClick(i) ==
  /\ i \in 0..(Len(currentRenderedFiles) - 1)
  /\ LET file == currentRenderedFiles[i + 1]
         r0 == NavResult(history, currentIndex, FALSE)
         r1 == IF ~isLoading /\ file.is_dir
                 THEN navigateToFolder(isLoading, history, currentIndex, file.name)
                 ELSE r0
         r2 == IF file.is_dir
                 THEN navigateToFolder(isLoading, r1.history, r1.currentIndex, file.name)
                 ELSE r1
     IN  IF flIsLoading
           THEN /\ notified' = "none"
                /\ UNCHANGED <<navVars, appVars, listVars>>
           ELSE /\ notified' = IF file.is_dir THEN "none" ELSE "info"
                /\ Len(r2.history) <= HistoryBound
                /\ history' = r2.history
                /\ currentIndex' = r2.currentIndex
                /\ UNCHANGED <<appVars, flIsLoading>>
                /\ IF r1.refreshed \/ r2.refreshed THEN refreshUI
                   ELSE /\ selectedFiles' = {}
                        /\ lastClickedIndex' = -1
                        /\ UNCHANGED <<currentRenderedFiles, pathNav, dom, timers>>

\* a double click on the file item with data-index i
ItemDblClick(i) ==
  /\ i \in 0..(Len(currentRenderedFiles) - 1)
  /\ ev' = IF currentRenderedFiles[i + 1].is_dir THEN "dblclickDir" ELSE "dblclickFile"
  /\ handleFileListDblClick(i)
  /\ AppFrame

Selection(sel, anchor) == [selectedFiles |-> sel, lastClickedIndex |-> anchor]

\* the shift branch with the anchor moved to the clicked item
selectRangeMovesAnchor(files, sel, anchor, fileIndex, ctrlPressed) ==
  LET start == IF anchor < fileIndex THEN anchor ELSE fileIndex
      end == IF anchor > fileIndex THEN anchor ELSE fileIndex
  IN  Selection((IF ctrlPressed THEN sel ELSE {})
                  \cup { files[k + 1].name : k \in start..end },
                fileIndex)

\* the shift branch: the names of files[start..end], added to the selection
\* (ctrl) or replacing it; lastClickedIndex is not assigned
selectRange(files, sel, anchor, fileIndex, ctrlPressed) ==
  LET start == IF anchor < fileIndex THEN anchor ELSE fileIndex
      end == IF anchor > fileIndex THEN anchor ELSE fileIndex
  IN  Selection((IF ctrlPressed THEN sel ELSE {})
                  \cup { files[k + 1].name : k \in start..end },
                anchor)

\* the ctrl branch with lastClickedIndex left alone
selectToggleKeepsAnchor(sel, anchor, filePath, fileIndex) ==
  Selection(IF filePath \in sel THEN sel \ {filePath} ELSE sel \cup {filePath},
            anchor)

\* the ctrl branch, dropping the anchor when the selection becomes empty
selectToggleDropsAnchor(sel, anchor, filePath, fileIndex) ==
  LET sel1 == IF filePath \in sel THEN sel \ {filePath} ELSE sel \cup {filePath}
  IN  Selection(sel1, IF sel1 = {} THEN -1 ELSE fileIndex)

\* the ctrl branch: flips filePath in the selection, lastClickedIndex = fileIndex
selectToggle(sel, anchor, filePath, fileIndex) ==
  Selection(IF filePath \in sel THEN sel \ {filePath} ELSE sel \cup {filePath},
            fileIndex)

\* the plain branch without the clear()
selectSimpleAdds(sel, filePath, fileIndex) ==
  Selection(sel \cup {filePath}, fileIndex)

\* the plain branch: clear(), add(filePath), lastClickedIndex = fileIndex
selectSimple(sel, filePath, fileIndex) ==
  Selection({filePath}, fileIndex)

\* a shift-click without an anchor taken as the range [fileIndex, fileIndex]
\* that leaves lastClickedIndex at -1
clickSelectionLoneRange(files, sel, anchor, filePath, fileIndex, ctrlPressed, shiftPressed) ==
  IF shiftPressed
    THEN IF anchor # -1
           THEN selectRange(files, sel, anchor, fileIndex, ctrlPressed)
           ELSE Selection((IF ctrlPressed THEN sel ELSE {}) \cup {files[fileIndex + 1].name},
                          anchor)
  ELSE IF ctrlPressed
    THEN selectToggle(sel, anchor, filePath, fileIndex)
  ELSE selectSimple(sel, filePath, fileIndex)

\* the if / else if / else of handleFileListClick on a file item
clickSelection(files, sel, anchor, filePath, fileIndex, ctrlPressed, shiftPressed) ==
  IF shiftPressed /\ anchor # -1
    THEN selectRange(files, sel, anchor, fileIndex, ctrlPressed)
  ELSE IF ctrlPressed
    THEN selectToggle(sel, anchor, filePath, fileIndex)
  ELSE selectSimple(sel, filePath, fileIndex)

\* the empty-space branch with lastClickedIndex left alone
clearSelectionKeepsAnchor(sel, anchor) == Selection({}, anchor)

\* the empty-space branch: selectedFiles.clear(), lastClickedIndex = -1
clearSelection(sel, anchor) == Selection({}, -1)

\* handleFileListClick on the element item of the list body, as far as it
\* assigns the module's state
handleFileListClick(item, ctrlPressed, shiftPressed) ==
  /\ item \in dom
  /\ UNCHANGED <<flIsLoading, currentRenderedFiles, pathNav, dom, timers>>
  /\ LET r == IF \/ flIsLoading
                 \/ item.name = Str0
                 \/ item.index >= Len(currentRenderedFiles)
                THEN Selection(selectedFiles, lastClickedIndex)
                ELSE clickSelection(currentRenderedFiles, selectedFiles, lastClickedIndex,
                                    item.name, item.index, ctrlPressed, shiftPressed)
     IN  /\ selectedFiles' = r.selectedFiles
         /\ lastClickedIndex' = r.lastClickedIndex

\* handleFileListClick outside every file item
handleEmptySpaceClick ==
  /\ UNCHANGED <<flIsLoading, currentRenderedFiles, pathNav, dom, timers>>
  /\ LET r == IF flIsLoading THEN Selection(selectedFiles, lastClickedIndex)
              ELSE clearSelection(selectedFiles, lastClickedIndex)
     IN  /\ selectedFiles' = r.selectedFiles
         /\ lastClickedIndex' = r.lastClickedIndex

\* handleFileListContextMenu on the element item: a right click on an item
\* that is not selected makes it the selection
handleFileListContextMenu(item) ==
  /\ item \in dom
  /\ UNCHANGED <<flIsLoading, lastClickedIndex, currentRenderedFiles, pathNav, dom, timers>>
  /\ selectedFiles' =
       IF \/ flIsLoading
          \/ item.name = Str0
          \/ item.index >= Len(currentRenderedFiles)
          \/ item.name \in selectedFiles
         THEN selectedFiles
         ELSE {item.name}

\* a plain click on a file item
ItemClick(item) ==
  /\ ev' = "select" /\ notified' = "none"
  /\ handleFileListClick(item, FALSE, FALSE)
  /\ UNCHANGED <<navVars, appVars>>
  /\ AppFrame

\* a click on empty space of the list
EmptyClick ==
  /\ ev' = "select" /\ notified' = "none"
  /\ handleEmptySpaceClick
  /\ UNCHANGED <<navVars, appVars>>
  /\ AppFrame

----------------------------------------------------------------------------
(* Commands that call the backend.                                          *)

\* the toolbar is shown with the file browser; updateToolbarButtonsState
\* leaves every button but Add Files disabled while no archive is loaded
toolbarClickable(addButton) == view = "browser" /\ (addButton \/ toolbarEnabled)

\* the context menus belong to the file list of the file browser
menuClickable == view = "browser"

\* the generic toolbar click handler refuses when no archive is open:
\* showError and nothing else
toolbarRefuses ==
  /\ notified' = "error"
  /\ UNCHANGED <<navVars, appVars, listVars, shellVars, tasks>>

\* a handler that returns after a showInfo
infoOnly ==
  /\ notified' = "info"
  /\ UNCHANGED <<navVars, appVars, listVars, shellVars, tasks>>

\* try { setIsLoading(true); await invoke(<mutation>, ...) of the mutation
\* handlers: the gate is set and the function waits for the backend.  The
\* handlers differ in their messages and in one point that matters later:
\* handlePaste and handleAddFolder keep the archive path in a local across
\* their awaits (capturesPath), the others read getCurrentArchivePath() at
\* each call.
startMutation(capturesPath, cut) ==
  /\ Free # {}
  /\ isLoading' = TRUE
  /\ tasks' = spawn(IF capturesPath THEN "mutationWithPath" ELSE "mutation", "mutate",
                   IF capturesPath THEN currentArchivePath ELSE "", cut)
  /\ notified' = "none"
  /\ UNCHANGED <<navVars, currentArchivePath, currentFiles, listVars, shellVars>>

\* loadArchive(archivePath) up to its await of open_archive
startLoad(archivePath) ==
  /\ Free # {}
  /\ isLoading' = TRUE
  /\ tasks' = spawn("load", "open", archivePath, FALSE)
  /\ notified' = "none"
  /\ UNCHANGED <<navVars, currentArchivePath, currentFiles, listVars, shellVars>>

\* openArchiveDialogAndLoad with the archive the user selects in the dialog,
\* and the initial loadArchive of initializeApp
OpenArchive(a) ==
  /\ ev' = "command"
  /\ startLoad(a)
  /\ UNCHANGED harnessVars

\* the New Archive button of the home page, the archive type chosen:
\* createNewArchive up to its await of the path dialog
CreateNewArchive ==
  /\ ev' = "create"
  /\ view = "home"
  /\ Free # {}
  /\ isLoading' = TRUE
  /\ tasks' = spawn("create", "pick", "", FALSE)
  /\ notified' = "none"
  /\ UNCHANGED <<navVars, currentArchivePath, currentFiles, listVars, shellVars, harnessVars>>

\* the Refresh listener past its guard, up to its await of openArchive:
\* updateLoadingStatus(true, ...) sets the gate and the list's loading flag
startRefresh ==
  /\ Free # {}
  /\ isLoading' = TRUE
  /\ flIsLoading' = TRUE
  /\ tasks' = spawn("refresh", "fetch", currentArchivePath, FALSE)
  /\ UNCHANGED <<currentArchivePath, currentFiles, selectedFiles,
                 lastClickedIndex, currentRenderedFiles, pathNav, dom, timers>>

\* Refresh button (setupNavButtons)
RefreshClick ==
  /\ ev' = "command" /\ notified' = "none"
  /\ IF isLoading \/ currentArchivePath = ""
       THEN UNCHANGED <<appVars, listVars, tasks>>
       ELSE startRefresh
  /\ UNCHANGED <<navVars, shellVars, harnessVars>>

\* Add Files button, the user picking files in the dialog
handleAddFiles ==
  /\ ev' = "command"
  /\ toolbarClickable(TRUE)
  /\ IF currentArchivePath = "" THEN toolbarRefuses
     ELSE startMutation(FALSE, FALSE)
  /\ UNCHANGED harnessVars

\* Add Folder button, the user picking folders in the dialog
handleAddFolder ==
  /\ ev' = "command"
  /\ toolbarClickable(FALSE)
  /\ IF currentArchivePath = "" THEN toolbarRefuses
     ELSE startMutation(TRUE, FALSE)
  /\ UNCHANGED harnessVars

\* Cut and Copy, from the toolbar or the context menu of the selection
handleCutCopy(op, toolbar) ==
  /\ ev' = "clipboard"
  /\ IF toolbar THEN toolbarClickable(FALSE) ELSE menuClickable /\ selectedFiles # {}
  /\ IF toolbar /\ currentArchivePath = "" THEN toolbarRefuses
     ELSE /\ notified' = "info"
          /\ clipboard' = IF selectedFiles = {} THEN clipboard ELSE op
          /\ UNCHANGED <<navVars, appVars, listVars, view, toolbarEnabled, tasks>>
  /\ UNCHANGED harnessVars

\* Paste, from the toolbar or the background context menu
handlePaste(toolbar) ==
  /\ ev' = "command"
  /\ IF toolbar THEN toolbarClickable(FALSE) ELSE menuClickable
  /\ IF toolbar /\ currentArchivePath = "" THEN toolbarRefuses
     ELSE IF clipboard = "none" THEN infoOnly
     ELSE startMutation(TRUE, clipboard = "cut")
  /\ UNCHANGED harnessVars

\* Rename, from the toolbar or the context menu, the user confirming the input
\* dialog with a new name
handleRename(toolbar) ==
  /\ ev' = "command"
  /\ IF toolbar THEN toolbarClickable(FALSE) ELSE menuClickable /\ selectedFiles # {}
  /\ IF toolbar /\ currentArchivePath = "" THEN toolbarRefuses
     ELSE IF Cardinality(selectedFiles) # 1 THEN infoOnly
     ELSE startMutation(FALSE, FALSE)
  /\ UNCHANGED harnessVars

\* Delete, from the toolbar or the context menu, the user confirming the dialog
handleDelete(toolbar) ==
  /\ ev' = "command"
  /\ IF toolbar THEN toolbarClickable(FALSE) ELSE menuClickable /\ selectedFiles # {}
  /\ IF toolbar /\ currentArchivePath = "" THEN toolbarRefuses
     ELSE IF selectedFiles = {} THEN infoOnly
     ELSE startMutation(FALSE, FALSE)
  /\ UNCHANGED harnessVars

\* New Folder, from the toolbar or the background context menu, the user
\* confirming the input dialog with a name
handleNewFolder(toolbar) ==
  /\ ev' = "command"
  /\ IF toolbar THEN toolbarClickable(FALSE) ELSE menuClickable
  /\ IF toolbar /\ currentArchivePath = "" THEN toolbarRefuses
     ELSE startMutation(FALSE, FALSE)
  /\ UNCHANGED harnessVars

\* resetAppState()
resetAppState ==
  /\ currentArchivePath' = ""
  /\ currentFiles' = <<>>
  /\ isLoading' = FALSE

\* logo click with the confirm dialog confirmed: resetAppToHome()
LogoReset ==
  /\ ev' = "logoReset" /\ notified' = "none"
  /\ currentArchivePath # ""
  /\ resetAppState
  /\ view' = "home"
  /\ toolbarEnabled' = FALSE
  /\ LET r == reset(Str0) IN history' = r.history /\ currentIndex' = r.currentIndex
  /\ UNCHANGED <<listVars, clipboard, tasks, harnessVars>>

----------------------------------------------------------------------------
(* The backend settles an awaited call and the waiting function continues. *)

MutationKinds == {"mutation", "mutationWithPath"}

\* the path of the open_archive re-fetch: the captured one, or
\* getCurrentArchivePath() read again
refetchPath(t) ==
  IF tasks[t].kind = "mutationWithPath" THEN tasks[t].arch ELSE currentArchivePath

catchWithoutFinally(t) ==
  /\ notified' = "error"
  /\ tasks' = finish(t)
  /\ UNCHANGED <<navVars, appVars, listVars, shellVars>>

\* the failure swallowed: the gate released and nothing notified
finallyWithoutCatch(t) ==
  /\ notified' = "none"
  /\ isLoading' = FALSE
  /\ tasks' = finish(t)
  /\ UNCHANGED <<navVars, currentArchivePath, currentFiles, listVars, shellVars>>

\* catch { showError } finally { setIsLoading(false) } of a mutation handler
catchAndFinally(t) ==
  /\ notified' = "error"
  /\ isLoading' = FALSE
  /\ tasks' = finish(t)
  /\ UNCHANGED <<navVars, currentArchivePath, currentFiles, listVars, shellVars>>

\* the answer taken, with the history reset as for a freshly opened archive
setFilesResetAndRefresh(files) ==
  /\ currentFiles' = files
  /\ history' = <<Str0>>
  /\ currentIndex' = 0
  /\ refreshUI

\* setCurrentFiles(files); refreshUI() of the refresh listener and of the
\* mutation handlers: the history is not assigned
setFilesAndRefresh(files) ==
  /\ currentFiles' = files
  /\ UNCHANGED navVars
  /\ refreshUI

\* the mutation call of a mutation handler settles
MutationSettles(t, ok) ==
  /\ tasks[t].kind \in MutationKinds /\ tasks[t].pc = "mutate"
  /\ ev' = "settle"
  /\ IF ok
       THEN /\ clipboard' = IF tasks[t].cut THEN "none" ELSE clipboard
            /\ tasks' = [tasks EXCEPT ![t].pc = "fetch", ![t].arch = refetchPath(t),
                                       ![t].cut = FALSE]
            /\ notified' = "none"
            /\ UNCHANGED <<navVars, appVars, listVars, view, toolbarEnabled>>
       ELSE catchAndFinally(t)

\* the open_archive re-fetch of a mutation handler settles
RefetchSettles(t, ok, files) ==
  /\ tasks[t].kind \in MutationKinds /\ tasks[t].pc = "fetch"
  /\ ev' = "settle"
  /\ IF ok
       THEN /\ files \in Listings(tasks[t].arch)
            /\ isLoading' = FALSE
            /\ tasks' = finish(t)
            /\ notified' = "success"
            /\ UNCHANGED <<currentArchivePath, flIsLoading, shellVars>>
            /\ setFilesAndRefresh(files)
       ELSE /\ files = <<>>
            /\ catchAndFinally(t)

\* the openArchive call of the Refresh button settles
RefreshSettles(t, ok, files) ==
  /\ tasks[t].kind = "refresh" /\ tasks[t].pc = "fetch"
  /\ ev' = "settle"
  /\ isLoading' = FALSE
  /\ flIsLoading' = FALSE
  /\ tasks' = finish(t)
  /\ UNCHANGED <<currentArchivePath, shellVars>>
  /\ IF ok
       THEN /\ files \in Listings(tasks[t].arch)
            /\ notified' = "none"
            /\ setFilesAndRefresh(files)
       ELSE /\ files = <<>>
            /\ notified' = "error"
            /\ UNCHANGED <<navVars, currentFiles, selectedFiles, lastClickedIndex, currentRenderedFiles, pathNav, dom, timers>>

\* the rest of createNewArchive once its loadArchive call has returned:
\* showFileBrowser(); refreshUI(); updateToolbarButtonsState(true); finally
afterLoadInCreate ==
  /\ view' = "browser"
  /\ toolbarEnabled' = TRUE
  /\ isLoading' = FALSE
  /\ refreshUI

\* the open_archive call of loadArchive settles
OpenSettles(t, ok, files) ==
  /\ tasks[t].kind \in {"load", "create"} /\ tasks[t].pc = "open"
  /\ ev' = "settle"
  /\ IF ok
       THEN /\ files \in Listings(tasks[t].arch)
            /\ currentArchivePath' = tasks[t].arch
            /\ currentFiles' = files
            /\ LET r == reset(Str0) IN history' = r.history /\ currentIndex' = r.currentIndex
            /\ view' = "browser"
            /\ tasks' = [tasks EXCEPT ![t].pc = "title"]
            /\ notified' = "none"
            /\ UNCHANGED <<isLoading, listVars, toolbarEnabled, clipboard>>
       ELSE /\ files = <<>>
            /\ notified' = "error"
            /\ currentArchivePath' = ""
            /\ currentFiles' = <<>>
            /\ tasks' = finish(t)
            /\ UNCHANGED <<navVars, flIsLoading, clipboard>>
            /\ IF tasks[t].kind = "create"
                 THEN afterLoadInCreate
                 ELSE /\ isLoading' = FALSE
                      /\ view' = "home"
                      /\ toolbarEnabled' = FALSE
                      /\ UNCHANGED <<selectedFiles, lastClickedIndex, currentRenderedFiles, pathNav, dom, timers>>

\* the setWindowTitle call of loadArchive settles (it never rejects)
TitleSettles(t) ==
  /\ tasks[t].kind \in {"load", "create"} /\ tasks[t].pc = "title"
  /\ ev' = "settle"
  /\ notified' = "success"
  /\ tasks' = finish(t)
  /\ UNCHANGED <<navVars, currentArchivePath, currentFiles, flIsLoading, clipboard>>
  /\ IF tasks[t].kind = "create"
       THEN afterLoadInCreate
       ELSE /\ toolbarEnabled' = TRUE
            /\ isLoading' = FALSE
            /\ UNCHANGED view
            /\ refreshUI

\* the path dialog of createNewArchive settles: a path, a cancel (null), or a
\* failure that selectNewArchivePath reports and turns into null
PickSettles(t, outcome) ==
  /\ tasks[t].kind = "create" /\ tasks[t].pc = "pick"
  /\ ev' = "settle"
  /\ IF outcome \in Archives
       THEN /\ tasks' = [tasks EXCEPT ![t].pc = "creating", ![t].arch = outcome]
            /\ notified' = "none"
            /\ UNCHANGED isLoading
       ELSE /\ tasks' = finish(t)
            /\ notified' = IF outcome = "failed" THEN "error" ELSE "none"
            /\ isLoading' = FALSE
  /\ UNCHANGED <<navVars, currentArchivePath, currentFiles, listVars, shellVars>>

\* the create_new_archive call of createNewArchive settles
CreateSettles(t, ok) ==
  /\ tasks[t].kind = "create" /\ tasks[t].pc = "creating"
  /\ ev' = "settle"
  /\ IF ok
       THEN /\ notified' = "success"
            /\ view' = "browser"
            /\ isLoading' = TRUE
            /\ tasks' = [tasks EXCEPT ![t].pc = "open"]
            /\ UNCHANGED <<currentArchivePath, currentFiles, toolbarEnabled>>
       ELSE /\ notified' = "error"
            /\ resetAppState
            /\ view' = "home"
            /\ tasks' = finish(t)
            /\ UNCHANGED toolbarEnabled
  /\ UNCHANGED <<navVars, listVars, clipboard>>

\* folder item of the context menu on item i: the right click selects the item
\* unless it is selected already, 'open-folder' acts on a single selected folder
MenuOpenFolder(i) ==
  /\ i \in 0..(Len(currentRenderedFiles) - 1)
  /\ menuClickable /\ ~flIsLoading
  /\ ev' = "navigate" /\ notified' = "none"
  /\ LET file == currentRenderedFiles[i + 1]
         selected == IF file.name \in selectedFiles THEN selectedFiles ELSE {file.name}
         r == navigateToFolder(isLoading, history, currentIndex, file.name)
     IN  /\ selected = {file.name} /\ file.is_dir
         /\ Len(r.history) <= MaxHist
         /\ history' = r.history
         /\ currentIndex' = r.currentIndex
         /\ UNCHANGED <<appVars, flIsLoading>>
         /\ IF r.refreshed THEN refreshUI
            ELSE /\ selectedFiles' = selected
                 /\ UNCHANGED <<lastClickedIndex, currentRenderedFiles, pathNav, dom, timers>>
  /\ AppFrame

\* 'refresh' of the background context menu: refreshUI()
MenuRefresh ==
  /\ menuClickable
  /\ ev' = "select" /\ notified' = "none"
  /\ UNCHANGED <<navVars, appVars, flIsLoading>>
  /\ refreshUI
  /\ AppFrame

AllListings == UNION { Listings(a) : a \in Archives } \cup {<<>>}

\* the backend settles the call function t waits for
Settle(t) ==
  /\ \/ \E ok \in BOOLEAN : MutationSettles(t, ok)
     \/ \E ok \in BOOLEAN, files \in AllListings : RefetchSettles(t, ok, files)
     \/ \E ok \in BOOLEAN, files \in AllListings : RefreshSettles(t, ok, files)
     \/ \E ok \in BOOLEAN, files \in AllListings : OpenSettles(t, ok, files)
     \/ TitleSettles(t)
     \/ \E outcome \in Archives \cup {"cancelled", "failed"} : PickSettles(t, outcome)
     \/ \E ok \in BOOLEAN : CreateSettles(t, ok)
  /\ UNCHANGED harnessVars

Next ==
  \/ BackClick
  \/ ForwardClick
  \/ UpClick
  \/ \E folderPath \in NavPaths : BreadcrumbClick(folderPath)
  \/ \E i \in 0..(Len(currentRenderedFiles) - 1) : ItemDblClick(i)
  \/ \E item \in dom : ItemClick(item)
  \/ EmptyClick
  \/ \E i \in 0..(Len(currentRenderedFiles) - 1) : MenuOpenFolder(i)
  \/ MenuRefresh
  \/ \E a \in Archives : OpenArchive(a)
  \/ CreateNewArchive
  \/ RefreshClick
  \/ handleAddFiles
  \/ handleAddFolder
  \/ \E op \in {"cut", "copy"}, toolbar \in BOOLEAN : handleCutCopy(op, toolbar)
  \/ \E toolbar \in BOOLEAN : handlePaste(toolbar)
  \/ \E toolbar \in BOOLEAN : handleRename(toolbar)
  \/ \E toolbar \in BOOLEAN : handleDelete(toolbar)
  \/ \E toolbar \in BOOLEAN : handleNewFolder(toolbar)
  \/ LogoReset
  \/ \E t \in 1..MaxTasks : Settle(t)

Spec == Init /\ [][Next]_vars

\* The gate protocol on its own: the commands, the clipboard and selection
\* they depend on, reset to home, and the backend.  The navigation and list
\* events left out read the gate and never write isLoading or tasks.
NextGate ==
  \/ \E a \in Archives : OpenArchive(a)
  \/ CreateNewArchive
  \/ RefreshClick
  \/ handleAddFiles
  \/ handleAddFolder
  \/ \E op \in {"cut", "copy"}, toolbar \in BOOLEAN : handleCutCopy(op, toolbar)
  \/ \E toolbar \in BOOLEAN : handlePaste(toolbar)
  \/ \E toolbar \in BOOLEAN : handleRename(toolbar)
  \/ \E toolbar \in BOOLEAN : handleDelete(toolbar)
  \/ \E toolbar \in BOOLEAN : handleNewFolder(toolbar)
  \/ \E item \in dom : ItemClick(item)
  \/ LogoReset
  \/ \E t \in 1..MaxTasks : Settle(t)

\* the backend settles every call it was given
SpecGate == Init /\ [][NextGate]_vars /\ \A t \in 1..MaxTasks : WF_vars(Settle(t))

----------------------------------------------------------------------------
(* The loading gate: isLoading of appState.                                 *)

\* functions waiting for the backend to answer a data call (open_archive,
\* create_new_archive or a mutation)
Outstanding == {t \in 1..MaxTasks : tasks[t].pc \in {"creating", "open", "mutate", "fetch"}}

\* functions that have started and not returned
Running == {t \in 1..MaxTasks : tasks[t].kind # "none"}

C2_BusyRejectsCommands ==
  [][(isLoading /\ ev' = "command")
       => (tasks' = tasks /\ isLoading' = isLoading /\ currentFiles' = currentFiles
           /\ notified' = "none")]_vars

\* C3: in every reachable state at most one asynchronous data operation is
\* outstanding.
C3_AtMostOneOutstanding == Cardinality(Outstanding) <= 1

\* C4: whenever a data operation has been issued and has not settled the gate
\* is Busy.
C4_OutstandingImpliesBusy == Outstanding # {} => isLoading

\* C5: the gate is never Busy with no operation running, and as the backend
\* settles every call a Busy gate becomes Idle again.
C5_BusyLeadsToIdle ==
  /\ [](isLoading => Running # {})
  /\ isLoading ~> ~isLoading

\* a command failed at the backend and its handler released the gate
C5_Witness ==
  /\ ev = "settle"
  /\ notified = "error"
  /\ ~isLoading
  /\ Running = {}

----------------------------------------------------------------------------
(* The file list of ui/fileExplorer.ts on its own: updateFileList called    *)
(* with any of a few lists, and clicks with any modifiers on the items drawn. *)

\* number of entries of the list the clicks are tried on
ListLen == 5

\* the name of the k-th entry of a generated list
entryName(prefix, k) == <<prefix, ToString(k)>>

\* a folder listing of ListLen files
ShortList == [k \in 1..ListLen |-> File(entryName("f", k - 1), FALSE)]

\* some of the same files, as a search returns them
SearchList == <<ShortList[2], ShortList[4]>>

renderedNames(files) == { files[k].name : k \in 1..Len(files) }

ClickArgs(item, ctrlPressed, shiftPressed) ==
  [name |-> item.name, index |-> item.index,
   ctrlPressed |-> ctrlPressed, shiftPressed |-> shiftPressed]

ListFrame == UNCHANGED <<navVars, appVars, shellVars, tasks, notified, ret, rt>>

\* setLoading(loading)
setLoading(loading) ==
  /\ flIsLoading' = loading
  /\ UNCHANGED <<selectedFiles, lastClickedIndex, currentRenderedFiles, pathNav, dom, timers>>

CallUpdateFileList(files) ==
  /\ ev' = "updateFileList" /\ arg' = Str0
  /\ pre' = Selection(selectedFiles, lastClickedIndex)
  /\ updateFileList(files)
  /\ UNCHANGED <<flIsLoading, pathNav>>
  /\ ListFrame

CallClick(item, ctrlPressed, shiftPressed) ==
  /\ ev' = "click" /\ arg' = ClickArgs(item, ctrlPressed, shiftPressed)
  /\ pre' = Selection(selectedFiles, lastClickedIndex)
  /\ handleFileListClick(item, ctrlPressed, shiftPressed)
  /\ ListFrame

CallEmptyClick ==
  /\ ev' = "emptyClick" /\ arg' = Str0
  /\ pre' = Selection(selectedFiles, lastClickedIndex)
  /\ handleEmptySpaceClick
  /\ ListFrame

CallContextMenu(item) ==
  /\ ev' = "contextMenu" /\ arg' = ClickArgs(item, FALSE, FALSE)
  /\ pre' = Selection(selectedFiles, lastClickedIndex)
  /\ handleFileListContextMenu(item)
  /\ ListFrame

CallSetLoading(loading) ==
  /\ ev' = "setLoading" /\ arg' = Str0
  /\ pre' = Selection(selectedFiles, lastClickedIndex)
  /\ setLoading(loading)
  /\ ListFrame

NextList ==
  \/ \E files \in {ShortList, SearchList, << >>} : CallUpdateFileList(files)
  \/ \E item \in dom, ctrlPressed \in BOOLEAN, shiftPressed \in BOOLEAN :
       CallClick(item, ctrlPressed, shiftPressed)
  \/ CallEmptyClick
  \/ \E item \in dom : CallContextMenu(item)
  \/ \E loading \in BOOLEAN : CallSetLoading(loading)

SpecList == Init /\ [][NextList]_vars

\* the click of the last step was dispatched on an item of the rendered list
Clicked == ev = "click" /\ ~flIsLoading

\* C13: every replacement of the rendered list leaves the selection empty and
\* the anchor at -1, also when paths selected before are in the new list.
C13_ReplacementClearsSelection ==
  ev = "updateFileList" => (selectedFiles = {} /\ lastClickedIndex = -1)

\* a list was replaced by one that still holds every path selected before
C13_Witness ==
  /\ ev = "updateFileList"
  /\ pre.selectedFiles # {}
  /\ pre.selectedFiles \subseteq renderedNames(currentRenderedFiles)
  /\ pre.lastClickedIndex # -1
  /\ selectedFiles = {}
  /\ lastClickedIndex = -1

\* the paths of R[lo..hi] of the rendered list (0-based, inclusive)
rangePaths(lo, hi) == { currentRenderedFiles[k + 1].name : k \in lo..hi }

minIndex(a, b) == IF a < b THEN a ELSE b

maxIndex(a, b) == IF a > b THEN a ELSE b

\* C14: with an anchor a >= 0, a shift-click at i makes the selection exactly
\* R[min(a,i)..max(a,i)] (added to the old selection when ctrl is held too)
\* and leaves the anchor at a.
C14_RangeFromAnchor ==
  (Clicked /\ arg.shiftPressed /\ pre.lastClickedIndex >= 0)
    => /\ selectedFiles =
            (IF arg.ctrlPressed THEN pre.selectedFiles ELSE {})
              \cup rangePaths(minIndex(pre.lastClickedIndex, arg.index),
                              maxIndex(pre.lastClickedIndex, arg.index))
       /\ lastClickedIndex = pre.lastClickedIndex

\* click at 1, shift-click at 4, shift-click at 2: indices 1 and 2 are selected
C14_Witness ==
  /\ Clicked /\ arg.shiftPressed /\ ~arg.ctrlPressed /\ arg.index = 2
  /\ currentRenderedFiles = ShortList
  /\ pre = Selection(rangePaths(1, 4), 1)
  /\ selectedFiles = rangePaths(1, 2)
  /\ lastClickedIndex = 1

\* C15 (as the code has it): a shift-click leaves the anchor where it was when
\* there is an anchor; without an anchor (-1) it acts as a plain click, or as
\* a toggle when ctrl is held too, and the clicked index becomes the anchor.
C15_ShiftClickAnchor ==
  (Clicked /\ arg.shiftPressed)
    => IF pre.lastClickedIndex # -1
         THEN lastClickedIndex = pre.lastClickedIndex
         ELSE /\ lastClickedIndex = arg.index
              /\ selectedFiles =
                   IF ~arg.ctrlPressed THEN {arg.name}
                   ELSE IF arg.name \in pre.selectedFiles
                     THEN pre.selectedFiles \ {arg.name}
                     ELSE pre.selectedFiles \cup {arg.name}

\* C15 as stated: a shift-click never changes the anchor; without an anchor it
\* adds exactly R[index] (after clearing unless ctrl is held) and the anchor
\* stays -1.
C15_ShiftClickKeepsAnchor ==
  (Clicked /\ arg.shiftPressed)
    => /\ lastClickedIndex = pre.lastClickedIndex
       /\ pre.lastClickedIndex = -1
            => selectedFiles = (IF arg.ctrlPressed THEN pre.selectedFiles ELSE {})
                                 \cup rangePaths(arg.index, arg.index)

\* a shift-click on a list without an anchor
C15_Witness ==
  /\ Clicked /\ arg.shiftPressed /\ ~arg.ctrlPressed
  /\ pre = Selection({}, -1)
  /\ selectedFiles = {arg.name}
  /\ lastClickedIndex = arg.index

\* C16: a ctrl-click flips the clicked path in the selection, leaves every
\* other path as it was and makes the clicked index the anchor.
C16_ToggleFlipsOne ==
  (Clicked /\ arg.ctrlPressed /\ ~arg.shiftPressed)
    => /\ (arg.name \in selectedFiles) = (arg.name \notin pre.selectedFiles)
       /\ selectedFiles \ {arg.name} = pre.selectedFiles \ {arg.name}
       /\ lastClickedIndex = arg.index

\* click on A at 0, ctrl-click on B at 1, ctrl-click on A at 0: {B} is selected
C16_Witness ==
  /\ Clicked /\ arg.ctrlPressed /\ ~arg.shiftPressed /\ arg.index = 0
  /\ currentRenderedFiles = ShortList
  /\ pre = Selection(rangePaths(0, 1), 1)
  /\ selectedFiles = rangePaths(1, 1)
  /\ lastClickedIndex = 0

\* C17: a click without modifiers makes the clicked path the whole selection
\* and the clicked index the anchor; repeating it changes nothing.
C17_SimpleSelectsOne ==
  (Clicked /\ ~arg.ctrlPressed /\ ~arg.shiftPressed)
    => /\ selectedFiles = {arg.name}
       /\ lastClickedIndex = arg.index

\* the same item clicked a second time, other paths having been selected
\* before the first
C17_Witness ==
  /\ Clicked /\ ~arg.ctrlPressed /\ ~arg.shiftPressed /\ arg.index = 2
  /\ pre = Selection({arg.name}, 2)
  /\ selectedFiles = {arg.name}
  /\ lastClickedIndex = 2

\* C18: a ctrl-click on the only selected item leaves the selection empty and
\* the anchor on that item; a shift-click at i after it selects the range
\* between that anchor and i.
C18_AnchorSurvivesDeselect ==
  /\ (Clicked /\ arg.ctrlPressed /\ ~arg.shiftPressed /\ pre.selectedFiles = {arg.name})
       => (selectedFiles = {} /\ lastClickedIndex = arg.index)
  /\ (Clicked /\ arg.shiftPressed /\ pre.selectedFiles = {} /\ pre.lastClickedIndex # -1)
       => /\ selectedFiles = rangePaths(minIndex(pre.lastClickedIndex, arg.index),
                                        maxIndex(pre.lastClickedIndex, arg.index))
          /\ lastClickedIndex = pre.lastClickedIndex

\* the item at 3 was toggled off as the last selected one, then a shift-click
\* at 1 selected 1..3
C18_Witness ==
  /\ Clicked /\ arg.shiftPressed /\ ~arg.ctrlPressed /\ arg.index = 1
  /\ currentRenderedFiles = ShortList
  /\ pre = Selection({}, 3)
  /\ selectedFiles = rangePaths(1, 3)
  /\ lastClickedIndex = 3

\* C19: a click on empty space does what clear() does: the selection is empty
\* and the anchor is -1.
C19_EmptyClickClears ==
  (ev = "emptyClick" /\ ~flIsLoading) => (selectedFiles = {} /\ lastClickedIndex = -1)

\* a click on empty space with items selected and an anchor set
C19_Witness ==
  /\ ev = "emptyClick" /\ ~flIsLoading
  /\ pre.selectedFiles # {}
  /\ pre.lastClickedIndex # -1
  /\ selectedFiles = {}
  /\ lastClickedIndex = -1

----------------------------------------------------------------------------
(* The file list with lists longer than one batch: the batches after the    *)
(* first are rendered from timeouts, which any other event may precede.     *)

\* a listing of one entry more than a batch holds
LongList(prefix) == [k \in 1..(BATCH_SIZE + 1) |-> File(entryName(prefix, k - 1), FALSE)]

\* the items the clicks are tried on: the first of the first batch and the
\* first of the second
clickTargets == { item \in dom : item.index \in {0, BATCH_SIZE} }

CallRenderBatch(t) ==
  /\ ev' = "renderBatch" /\ arg' = Str0
  /\ pre' = Selection(selectedFiles, lastClickedIndex)
  /\ RenderBatchFires(t)
  /\ ListFrame

NextRender ==
  \/ \E files \in {LongList("a"), LongList("b")} : CallUpdateFileList(files)
  \/ \E t \in timers : CallRenderBatch(t)
  \/ \E item \in clickTargets, ctrlPressed \in BOOLEAN, shiftPressed \in BOOLEAN :
       CallClick(item, ctrlPressed, shiftPressed)
  \/ CallEmptyClick
  \/ \E item \in clickTargets : CallContextMenu(item)

SpecRender == Init /\ [][NextRender]_vars

\* C12: every selected path is the path of an entry of the list rendered
\* last, whatever the order of clicks, context-menu clicks, replacements of
\* the list and render batches.
C12_SelectionWithinRenderedList ==
  selectedFiles \subseteq renderedNames(currentRenderedFiles)

\* C29: render passes do not interleave: every item drawn in the list body
\* belongs to the list rendered last, its data-index naming the entry of that
\* list whose path is its data-filename, also for lists longer than a batch.
C29_DrawnItemsMatchList ==
  \A item \in dom :
    /\ item.index < Len(currentRenderedFiles)
    /\ currentRenderedFiles[item.index + 1].name = item.name

\* the same with a short list among the replacements: a batch left over from
\* a long list then draws an item whose index the short list does not have
NextStale ==
  \/ NextRender
  \/ CallUpdateFileList(SearchList)

SpecStale == Init /\ [][NextStale]_vars

\* C35: a click on an item whose index is outside the list rendered last
\* changes neither the selection nor the anchor, and the anchor is always -1
\* or an index of the list rendered last.
C35_ClicksStayInBounds ==
  /\ (ev = "click" /\ arg.index >= Len(currentRenderedFiles))
       => Selection(selectedFiles, lastClickedIndex) = pre
  /\ lastClickedIndex = -1 \/ lastClickedIndex \in 0..(Len(currentRenderedFiles) - 1)

\* with an item selected, a click on an item a stale batch has drawn beyond
\* the end of the list
C35_Witness ==
  /\ ev = "click" /\ ~flIsLoading
  /\ arg.index >= Len(currentRenderedFiles)
  /\ pre.selectedFiles # {}
  /\ pre.lastClickedIndex # -1
  /\ selectedFiles = pre.selectedFiles

----------------------------------------------------------------------------
(* filterFilesByFolder on its own: applied to any short entry list and any  *)
(* normalized folder.                                                       *)

\* entries of a list handed to filterFilesByFolder
MaxEntries == 2

\* entry paths as an archive lists them: files, directories with and without
\* the trailing slash, nested entries, and paths with leading or doubled slashes
FilterPaths ==
  { <<"x">>, <<"x", "/">>, <<"y">>,
    <<"x", "/", "y">>, <<"x", "/", "y", "/">>, <<"x", "/", "y", "/", "x">>,
    <<"/", "x">>, <<"/", "/", "x">>, <<"/", "/", "x", "/", "y">>,
    <<"x", "/", "/">>, <<"/">> }

\* a path that ends in a slash names a directory
FilterEntries ==
  { File(p, d) : p \in FilterPaths, d \in BOOLEAN } \ { File(p, FALSE) : p \in {q \in FilterPaths : endsWithSlash(q)} }

\* a flat listing that has no entry for the directories its paths go through
\* (a path segment is kept as one element)
FlatList ==
  << File(<<"a.txt">>, FALSE),
     File(<<"dir", "/", "b.txt">>, FALSE),
     File(<<"dir", "/", "sub", "/", "c.txt">>, FALSE) >>

FilterLists == UNION { [1..n -> FilterEntries] : n \in 0..MaxEntries } \cup {FlatList}

\* normalized folder paths: the root, or segments each followed by a slash
FilterFolders == { Str0, <<"x", "/">>, <<"x", "/", "y", "/">>, <<"dir", "/">> }

InitFilter ==
  /\ InitHistory
  /\ currentArchivePath = ""
  /\ currentFiles = << >>
  /\ isLoading = FALSE
  /\ flIsLoading = FALSE
  /\ selectedFiles = {}
  /\ lastClickedIndex = -1
  /\ currentRenderedFiles = << >>
  /\ pathNav = None
  /\ dom = {}
  /\ timers = {}
  /\ view = "home"
  /\ toolbarEnabled = FALSE
  /\ clipboard = "none"
  /\ tasks = [t \in 1..MaxTasks |-> NoTask]
  /\ ev = "init"
  /\ notified = "none"
  /\ \E files \in FilterLists, currentFolder \in FilterFolders :
       arg = [files |-> files, currentFolder |-> currentFolder]
  /\ ret = None
  /\ pre = NoCall
  /\ rt = RtIdle

CallFilterFilesByFolder ==
  /\ ev = "init"
  /\ ev' = "filterFilesByFolder"
  /\ ret' = Some(filterFilesByFolder(arg.files, arg.currentFolder))
  /\ UNCHANGED <<navVars, appVars, listVars, shellVars, tasks, notified, arg, pre, rt>>

NextFilter == CallFilterFilesByFolder

SpecFilter == InitFilter /\ [][NextFilter]_vars

\* the folder without its trailing slash
folderPrefix(folder) == IF endsWithSlash(folder) THEN dropLast(folder) ELSE folder

\* path with one trailing slash ignored
withoutTrailingSlash(path) == IF endsWithSlash(path) THEN dropLast(path) ELSE path

\* path with a leading "//" taken off if it has one, else with one trailing
\* slash ignored
withoutLeadingPairOrTrailingSlash(path) ==
  IF Len(path) >= 2 /\ SubSeq(path, 1, 2) = <<Slash, Slash>>
    THEN SubSeq(path, 3, Len(path))
    ELSE withoutTrailingSlash(path)

\* path p is a direct child of the folder with the given prefix
directChild(p, prefix) ==
  IF prefix = Str0 THEN ~includesSlash(p)
  ELSE /\ startsWith(p, prefix \o <<Slash>>)
       /\ ~includesSlash(SubSeq(p, Len(prefix) + 2, Len(p)))

\* C20 (as the code has it): for every entry list and every normalized folder
\* the result is the subsequence, in input order, of the entries whose path is
\* a direct child of the folder, where the path is first stripped of a leading
\* "//" if it has one and otherwise of one trailing "/"; the folder itself and
\* deeper descendants are not in it.
C20_ChildrenAfterStripping ==
  ev = "filterFilesByFolder"
    => ret = Some(SelectSeq(arg.files,
                    LAMBDA e : directChild(withoutLeadingPairOrTrailingSlash(e.name),
                                           folderPrefix(arg.currentFolder))))

\* C20 as stated: the result is the subsequence, in input order, of the
\* entries whose path, a trailing "/" ignored, is a direct child of the folder.
C20_ChildrenExactly ==
  ev = "filterFilesByFolder"
    => ret = Some(SelectSeq(arg.files,
                    LAMBDA e : directChild(withoutTrailingSlash(e.name),
                                           folderPrefix(arg.currentFolder))))

\* the children of x/ among a deeper descendant and a sub-directory written
\* with its trailing slash
C20_Witness ==
  /\ ev = "filterFilesByFolder"
  /\ arg = [files |-> << File(<<"x", "/", "y", "/", "x">>, FALSE),
                         File(<<"x", "/", "y", "/">>, TRUE) >>,
            currentFolder |-> <<"x", "/">>]
  /\ ret = Some(<< File(<<"x", "/", "y", "/">>, TRUE) >>)

\* C33: a leading slash of the folder is ignored: the children of "/" + f are
\* the children of f, for every entry list and folder f (so a folder written
\* with a leading and a trailing slash has the children of the normalized one).
C33_LeadingSlashIgnored ==
  ev = "filterFilesByFolder"
    => ret = Some(filterFilesByFolder(arg.files, <<Slash>> \o arg.currentFolder))

\* the directories of the entry list files: the entries whose path, a trailing
\* slash ignored, is the path dirPath
directoryEntries(files, dirPath) ==
  { k \in 1..Len(files) : files[k].is_dir /\ withoutTrailingSlash(files[k].name) = dirPath }

\* C21: for the entry list [a.txt, dir/b.txt, dir/sub/c.txt], which has no
\* entry for dir, the children of the root are a.txt and the directory dir,
\* and the children of "dir/" are exactly [dir/b.txt].
C21_FlatListChildren ==
  (ev = "filterFilesByFolder" /\ arg.files = FlatList)
    => /\ arg.currentFolder = Str0
            => /\ \E k \in 1..Len(ret[1]) : ret[1][k] = FlatList[1]
               /\ directoryEntries(ret[1], <<"dir">>) # {}
               /\ Len(ret[1]) = 2
       /\ arg.currentFolder = <<"dir", "/">> => ret[1] = <<FlatList[2]>>

----------------------------------------------------------------------------
(* sortFiles on its own: applied to any short list of entries.              *)

\* entries of a list handed to sortFiles
MaxSortLen == 3

\* directories and files, some with equal names, some nested
SortEntries ==
  { File(<<"x", "/">>, TRUE), File(<<"w">>, TRUE), File(<<"w">>, FALSE),
    File(<<"x">>, FALSE), File(<<"x", "/", "y">>, FALSE), File(<<"z">>, FALSE) }

SortLists == UNION { [1..n -> SortEntries] : n \in 0..MaxSortLen }

InitSort ==
  /\ InitHistory
  /\ currentArchivePath = ""
  /\ currentFiles = << >>
  /\ isLoading = FALSE
  /\ flIsLoading = FALSE
  /\ selectedFiles = {}
  /\ lastClickedIndex = -1
  /\ currentRenderedFiles = << >>
  /\ pathNav = None
  /\ dom = {}
  /\ timers = {}
  /\ view = "home"
  /\ toolbarEnabled = FALSE
  /\ clipboard = "none"
  /\ tasks = [t \in 1..MaxTasks |-> NoTask]
  /\ ev = "init"
  /\ notified = "none"
  /\ \E files \in SortLists : arg = [files |-> files]
  /\ ret = None
  /\ pre = NoCall
  /\ rt = RtIdle

CallSortFiles ==
  /\ ev = "init"
  /\ ev' = "sortFiles"
  /\ pre' = [files |-> arg.files]
  /\ LET r == sortFilesCall(arg.files)
     IN  /\ ret' = Some(r.result)
         /\ arg' = [files |-> r.files]
  /\ UNCHANGED <<navVars, appVars, listVars, shellVars, tasks, notified, rt>>

NextSort == CallSortFiles

SpecSort == InitSort /\ [][NextSort]_vars

\* how often entry e occurs in the list files
occurrences(files, e) == Cardinality({ k \in 1..Len(files) : files[k] = e })

\* C22: sortFiles returns a permutation of its input in which every
\* directory precedes every file and, within each kind, the paths are in
\* non-decreasing order; the input list is left as it was.
C22_SortedPermutation ==
  ev = "sortFiles"
    => LET out == ret[1]
           in == pre.files
       IN  /\ Len(out) = Len(in)
           /\ \A e \in SortEntries : occurrences(out, e) = occurrences(in, e)
           /\ \A i, j \in 1..Len(out) :
                 i < j => /\ out[i].is_dir \/ ~out[j].is_dir
                          /\ out[i].is_dir = out[j].is_dir
                               => localeCompare(out[i].name, out[j].name) <= 0
           /\ arg.files = in

\* a file, a nested file and a directory, given in the reverse of their order
C22_Witness ==
  /\ ev = "sortFiles"
  /\ pre.files = << File(<<"z">>, FALSE), File(<<"x", "/", "y">>, FALSE), File(<<"x", "/">>, TRUE) >>
  /\ ret = Some(<< File(<<"x", "/">>, TRUE), File(<<"x", "/", "y">>, FALSE), File(<<"z">>, FALSE) >>)
  /\ arg.files = pre.files

----------------------------------------------------------------------------
(* Browsing an opened archive: descents by double click, Up, Back, Forward. *)

\* the entries [x/ (dir), x/y, z]
FlatTree == << File(PathX, TRUE), File(PathXY, FALSE), File(PathZ, FALSE) >>

\* directories two levels deep, one of them listed without a trailing slash
DeepTree ==
  << File(<<"z">>, FALSE),
     File(<<"x", "/">>, TRUE), File(<<"x", "/", "y">>, FALSE),
     File(<<"x", "/", "w", "/">>, TRUE), File(<<"x", "/", "w", "/", "z">>, FALSE),
     File(<<"w">>, TRUE), File(<<"w", "/", "y">>, FALSE) >>

\* what refreshUI() shows for the folder: the sorted children
visible(files, folder) == sortFiles(filterFilesByFolder(files, folder))

\* the state loadArchive leaves when open_archive answers with one of trees
InitShowing(trees) ==
  /\ history = <<Str0>>
  /\ currentIndex = 0
  /\ currentArchivePath = "D"
  /\ currentFiles \in trees
  /\ isLoading = FALSE
  /\ flIsLoading = FALSE
  /\ selectedFiles = {}
  /\ lastClickedIndex = -1
  /\ currentRenderedFiles = visible(currentFiles, Str0)
  /\ pathNav = Some(Str0)
  /\ dom = fileItems(currentRenderedFiles, 0, Len(currentRenderedFiles))
  /\ timers = {}
  /\ view = "browser"
  /\ toolbarEnabled = TRUE
  /\ clipboard = "none"
  /\ tasks = [t \in 1..MaxTasks |-> NoTask]
  /\ ev = "init"
  /\ notified = "success"
  /\ arg = Str0
  /\ ret = None
  /\ pre = NoCall
  /\ rt = RtIdle

InitBrowse == InitShowing({FlatTree, DeepTree})

\* the folder shown and the entries visible in it
Shown == [folder |-> getCurrentPath(history, currentIndex), entries |-> currentRenderedFiles]

BrowseFrame == UNCHANGED <<shellVars, tasks, arg, ret, rt>>

\* a double click on the directory with data-index i
BrowseDescend(i) ==
  /\ i \in 0..(Len(currentRenderedFiles) - 1)
  /\ currentRenderedFiles[i + 1].is_dir
  /\ ev' = "descend"
  /\ pre' = Shown
  /\ handleFileListDblClick(i)
  /\ BrowseFrame

BrowseUp ==
  /\ ev' = IF ev = "descend" THEN "descendUp" ELSE "up"
  /\ notified' = "none"
  /\ UNCHANGED pre
  /\ goUp
  /\ BrowseFrame

BrowseBack ==
  /\ ev' = "back" /\ notified' = "none"
  /\ UNCHANGED pre
  /\ goBack
  /\ BrowseFrame

BrowseForward ==
  /\ ev' = "forward" /\ notified' = "none"
  /\ UNCHANGED pre
  /\ goForward
  /\ BrowseFrame

NextBrowse ==
  \/ \E i \in 0..(Len(currentRenderedFiles) - 1) : BrowseDescend(i)
  \/ BrowseUp
  \/ BrowseBack
  \/ BrowseForward

SpecBrowse == InitBrowse /\ [][NextBrowse]_vars

\* C23: a descent from folder f into a directory shown in f, followed by Up,
\* ends in f with the entries that were visible before the descent.
C23_UpUndoesDescent ==
  ev = "descendUp"
    => /\ getCurrentPath(history, currentIndex) = pre.folder
       /\ currentRenderedFiles = pre.entries

\* for [x/, x/y, z]: the root shows [x/, z], x/ showed [x/y], and Up is back
\* at the root view
C23_Witness ==
  /\ ev = "descendUp"
  /\ currentFiles = FlatTree
  /\ pre = [folder |-> Str0, entries |-> << File(PathX, TRUE), File(PathZ, FALSE) >>]
  /\ history = <<Str0, PathX, Str0>>
  /\ currentIndex = 2
  /\ visible(currentFiles, PathX) = << File(PathXY, FALSE) >>
  /\ currentRenderedFiles = << File(PathX, TRUE), File(PathZ, FALSE) >>

----------------------------------------------------------------------------
(* What the completions of the backend calls do to the browse state.        *)

\* the step in which loadArchive takes a successful open_archive answer
OpenSucceeds == \E t \in 1..MaxTasks : tasks[t].pc = "open" /\ tasks'[t].pc = "title"

\* C24: a successful archive open resets the history to exactly [""] with the
\* cursor at 0, whatever it was before, so the current folder is the root and
\* neither Back nor Forward is possible.
C24_OpenResetsHistory ==
  [][ OpenSucceeds
        => /\ history' = <<Str0>>
           /\ currentIndex' = 0
           /\ getCurrentPath(history', currentIndex') = Str0
           /\ ~canGoBack(history', currentIndex')
           /\ ~canGoForward(history', currentIndex') ]_vars

\* an archive was opened while the folder x/ of the one before was shown: the
\* list and the breadcrumb still show x/, the history is [""] again
C24_Witness ==
  /\ ev = "settle"
  /\ \E t \in 1..MaxTasks : tasks[t].kind = "load" /\ tasks[t].pc = "title"
  /\ pathNav = Some(PathX)
  /\ history = <<Str0>>
  /\ currentIndex = 0

\* the step in which a refresh or the re-fetch of a mutation command takes a
\* successful open_archive answer
RefetchSucceeds(t) ==
  /\ tasks[t].pc = "fetch"
  /\ tasks'[t].kind = "none"
  /\ notified' # "error"

\* C25: the completion of a successful refresh or mutation command replaces
\* the entry list and leaves the history and its cursor as they were; among
\* the completions only a successful archive open changes them.
C25_CompletionKeepsHistory ==
  [][ /\ \A t \in 1..MaxTasks :
           RefetchSucceeds(t)
             => /\ currentFiles' \in Listings(tasks[t].arch)
                /\ history' = history
                /\ currentIndex' = currentIndex
      /\ (ev' = "settle" /\ <<history, currentIndex>>' # <<history, currentIndex>>)
           => OpenSucceeds ]_vars

\* a mutation command completed while the folder x/ was shown: the list was
\* fetched again and x/ is still the current folder
C25_Witness ==
  /\ ev = "settle" /\ notified = "success"
  /\ \A t \in 1..MaxTasks : tasks[t].kind = "none"
  /\ currentFiles \in Listings(currentArchivePath)
  /\ history = <<Str0, PathX>>
  /\ currentIndex = 1
  /\ currentRenderedFiles = << File(PathXY, FALSE) >>

\* the step in which loadArchive, called to open a picked archive, takes the
\* rejection of open_archive: its catch and finally blocks run
OpenFails ==
  \E t \in 1..MaxTasks :
    /\ tasks[t].kind = "load" /\ tasks[t].pc = "open"
    /\ tasks'[t].kind = "none"
    /\ notified' = "error"

\* C26: after a failed archive open the session is in the empty state of
\* resetAppToHome: no archive path, no entries, the gate idle and the history
\* reset to [""] with the cursor at 0.
C26_FailedOpenIsHome ==
  [][ OpenFails
        => /\ currentArchivePath' = ""
           /\ currentFiles' = <<>>
           /\ isLoading' = FALSE
           /\ history' = <<Str0>>
           /\ currentIndex' = 0 ]_vars

\* the backend rejects the data call function t waits for: the mutation
\* call, the open_archive call after it, the open_archive call of Refresh or
\* of loadArchive, the create_new_archive call
Rejected(t) ==
  \/ MutationSettles(t, FALSE)
  \/ RefetchSettles(t, FALSE, <<>>)
  \/ RefreshSettles(t, FALSE, <<>>)
  \/ OpenSettles(t, FALSE, <<>>)
  \/ CreateSettles(t, FALSE)

\* C28: every rejection of a backend data call (open, refresh, mutation,
\* re-fetch) is notified as an error, and the function that awaited the call
\* handles it and returns: none propagates, none is dropped silently.
C28_FailuresAreNotified ==
  [][ \A t \in 1..MaxTasks :
        Rejected(t) => notified' = "error" /\ tasks'[t] = NoTask ]_vars

\* a refresh or a mutation command was rejected while archive A was shown:
\* the error is notified and the list is still in place
C28_Witness ==
  /\ ev = "settle" /\ notified = "error"
  /\ currentArchivePath = "A"
  /\ currentFiles \in Listings("A")
  /\ view = "browser"
  /\ \A t \in 1..MaxTasks : tasks[t].kind = "none"

\* the step in which the loadArchive call at the end of createNewArchive takes
\* the rejection of open_archive, and createNewArchive runs to its end
CreateOpenFails ==
  \E t \in 1..MaxTasks :
    /\ tasks[t].kind = "create" /\ tasks[t].pc = "open"
    /\ tasks'[t].kind = "none"
    /\ notified' = "error"

\* C32: when the archive open at the end of the create-new-archive flow
\* fails, the application ends in the home state: the home view, the
\* archive-dependent toolbar buttons disabled, no archive path and no entries.
C32_FailedCreateOpenIsHome ==
  [][ CreateOpenFails
        => /\ view' = "home"
           /\ ~toolbarEnabled'
           /\ currentArchivePath' = ""
           /\ currentFiles' = <<>> ]_vars

\* C36: the cached entry list is always an answer of open_archive for the
\* archive whose path is stored, and is empty while no path is stored: an
\* answer that arrives after a reset to the home page, or after another
\* archive was opened, is not applied.
C36_EntriesBelongToArchive ==
  IF currentArchivePath = "" THEN currentFiles = <<>>
  ELSE currentFiles \in Listings(currentArchivePath)

\* a click or a double click on an item of the file list
ListEvent ==
  \/ \E item \in dom : ItemClick(item)
  \/ \E i \in 0..(Len(currentRenderedFiles) - 1) : ItemDblClick(i)

\* C37: while the application's loading flag is set the file list's own
\* loading flag is set too, so that clicks and double clicks on items leave
\* the selection and the anchor as they are.
C37_BusyBlocksListEvents ==
  [][ /\ isLoading => flIsLoading
      /\ (isLoading /\ ListEvent)
           => (selectedFiles' = selectedFiles /\ lastClickedIndex' = lastClickedIndex) ]_vars

----------------------------------------------------------------------------
(* One refresh or mutation command at a time on an opened archive, with what *)
(* the user can do while the command waits for the backend; the state at     *)
(* the moment the command is issued is kept in pre.                          *)

\* what a failed command is said to leave as it was
IssueState ==
  [currentFiles |-> currentFiles, currentArchivePath |-> currentArchivePath,
   history |-> history, currentIndex |-> currentIndex]

\* archive A opened and shown at the root, something copied to the clipboard
InitCommand ==
  /\ history = <<Str0>>
  /\ currentIndex = 0
  /\ currentArchivePath = "A"
  /\ currentFiles \in Listings("A")
  /\ isLoading = FALSE
  /\ flIsLoading = FALSE
  /\ selectedFiles = {}
  /\ lastClickedIndex = -1
  /\ currentRenderedFiles = sortFiles(filterFilesByFolder(currentFiles, Str0))
  /\ pathNav = Some(Str0)
  /\ dom = fileItems(currentRenderedFiles, 0, Len(currentRenderedFiles))
  /\ timers = {}
  /\ view = "browser"
  /\ toolbarEnabled = TRUE
  /\ clipboard = "copy"
  /\ tasks = [t \in 1..MaxTasks |-> NoTask]
  /\ ev = "init"
  /\ notified = "success"
  /\ arg = Str0
  /\ ret = None
  /\ pre = IssueState
  /\ rt = RtIdle

NoneOutstanding == \A t \in 1..MaxTasks : tasks[t].kind = "none"

IssueFrame == UNCHANGED <<arg, ret, rt>>

\* the Refresh button, no other command waiting
IssueRefresh ==
  /\ NoneOutstanding
  /\ ~isLoading /\ currentArchivePath # ""
  /\ ev' = "issue" /\ notified' = "none"
  /\ pre' = IssueState
  /\ startRefresh
  /\ UNCHANGED <<navVars, shellVars>>
  /\ IssueFrame

\* the Paste button, no other command waiting
IssuePaste ==
  /\ NoneOutstanding
  /\ toolbarClickable(FALSE) /\ currentArchivePath # "" /\ clipboard # "none"
  /\ ev' = "issue"
  /\ pre' = IssueState
  /\ startMutation(TRUE, clipboard = "cut")
  /\ IssueFrame

\* the New Folder button, no other command waiting
IssueNewFolder ==
  /\ NoneOutstanding
  /\ toolbarClickable(FALSE) /\ currentArchivePath # ""
  /\ ev' = "issue"
  /\ pre' = IssueState
  /\ startMutation(FALSE, FALSE)
  /\ IssueFrame

\* the backend settles the call the command waits for
CommandSettles(t) ==
  /\ \/ \E ok \in BOOLEAN : MutationSettles(t, ok)
     \/ \E ok \in BOOLEAN, files \in AllListings : RefetchSettles(t, ok, files)
     \/ \E ok \in BOOLEAN, files \in AllListings : RefreshSettles(t, ok, files)
  /\ UNCHANGED harnessVars

NextCommand ==
  \/ IssueRefresh
  \/ IssuePaste
  \/ IssueNewFolder
  \/ \E t \in 1..MaxTasks : CommandSettles(t)
  \/ \E i \in 0..(Len(currentRenderedFiles) - 1) : ItemDblClick(i)
  \/ UpClick
  \/ BackClick
  \/ LogoReset

SpecCommand == InitCommand /\ [][NextCommand]_vars

\* the step in which a refresh or a mutation command takes a rejection, of
\* the mutation call or of the open_archive call after it
CommandFails ==
  \E t \in 1..MaxTasks :
    /\ tasks[t].kind \in MutationKinds \cup {"refresh"}
    /\ tasks'[t].kind = "none"
    /\ notified' = "error"

\* C27: when a refresh or a mutation command fails, the entry list, the
\* archive path and the history with its cursor are what they were when the
\* command was issued, and the gate is idle.
C27_FailureLeavesIssueState ==
  [][ CommandFails
        => /\ currentFiles' = pre.currentFiles
           /\ currentArchivePath' = pre.currentArchivePath
           /\ history' = pre.history
           /\ currentIndex' = pre.currentIndex
           /\ isLoading' = FALSE ]_vars

----------------------------------------------------------------------------
(* refreshUI() called again on what it has just rendered, while an archive  *)
(* is browsed and items are clicked.                                        *)

\* what a refresh shows and what it is computed from
Rendered ==
  [currentRenderedFiles |-> currentRenderedFiles,
   selectedFiles |-> selectedFiles,
   lastClickedIndex |-> lastClickedIndex,
   pathNav |-> pathNav,
   dom |-> dom,
   backEnabled |-> canGoBack(history, currentIndex),
   forwardEnabled |-> canGoForward(history, currentIndex),
   currentFiles |-> currentFiles,
   history |-> history,
   currentIndex |-> currentIndex]

\* refreshUI(), from the background context menu; pre keeps what was shown
CallRefreshUI ==
  /\ menuClickable
  /\ ev' = IF ev \in {"refreshUI", "refreshUIAgain"} THEN "refreshUIAgain" ELSE "refreshUI"
  /\ notified' = "none"
  /\ pre' = Rendered
  /\ UNCHANGED <<navVars, appVars, flIsLoading>>
  /\ refreshUI
  /\ BrowseFrame

NextRefresh ==
  \/ NextBrowse
  \/ \E item \in dom : ItemClick(item)
  \/ CallRefreshUI

SpecRefresh == InitBrowse /\ [][NextRefresh]_vars

----------------------------------------------------------------------------
(* The status bar.  Its text is kept in ret: the welcome text, the message  *)
(* of a running refresh, or the item count of getFileStats.  One command at *)
(* a time, from the start of the application, on archive M.                 *)

\* the texts of the status bar
StatusText(text, count) == [text |-> text, count |-> count]
Welcome == StatusText("welcome", 0)
LoadingMessage == StatusText("message", 0)
ItemCount(n) == StatusText("items", n)

\* updateStatusBar(): nothing while the application is loading, the welcome
\* text without an archive, else the count of getFileStats
updateStatusBar(loading, archivePath, files, currentFolder, shown) ==
  IF loading THEN shown
  ELSE IF archivePath = "" THEN Welcome
  ELSE ItemCount(getFileStats(files, currentFolder).count)

\* what the status bar shows after a refreshUI() in the state being written
statusAfterRefreshUI(loading) ==
  updateStatusBar(loading, currentArchivePath', currentFiles',
                  getCurrentPath(history', currentIndex'), ret)

\* initializeApp without a file on the command line: the home page, with
\* updateStatusBar() called
InitFooter ==
  /\ InitHistory
  /\ currentArchivePath = ""
  /\ currentFiles = << >>
  /\ isLoading = FALSE
  /\ flIsLoading = FALSE
  /\ selectedFiles = {}
  /\ lastClickedIndex = -1
  /\ currentRenderedFiles = << >>
  /\ pathNav = None
  /\ dom = {}
  /\ timers = {}
  /\ view = "home"
  /\ toolbarEnabled = FALSE
  /\ clipboard = "none"
  /\ tasks = [t \in 1..MaxTasks |-> NoTask]
  /\ ev = "init"
  /\ notified = "none"
  /\ arg = "other"
  /\ ret = Welcome
  /\ pre = NoCall
  /\ rt = RtIdle

FooterFrame == UNCHANGED <<pre, rt>>

\* openArchiveDialogAndLoad with archive M picked
FooterOpen ==
  /\ NoneOutstanding
  /\ ev' = "command" /\ arg' = "other"
  /\ startLoad("M")
  /\ UNCHANGED ret
  /\ FooterFrame

\* the Refresh button: updateLoadingStatus(true, message)
FooterRefresh ==
  /\ NoneOutstanding
  /\ ~isLoading /\ currentArchivePath # ""
  /\ ev' = "command" /\ arg' = "other" /\ notified' = "none"
  /\ startRefresh
  /\ ret' = LoadingMessage
  /\ UNCHANGED <<navVars, shellVars>>
  /\ FooterFrame

\* the New Folder button
FooterNewFolder ==
  /\ NoneOutstanding
  /\ toolbarClickable(FALSE) /\ currentArchivePath # ""
  /\ ev' = "command" /\ arg' = "other"
  /\ startMutation(FALSE, FALSE)
  /\ UNCHANGED ret
  /\ FooterFrame

\* the backend settles the call function t waits for.  refreshUI() runs
\* inside the try blocks of loadArchive and of the mutation handlers, before
\* their finally blocks clear the flag; the Refresh listener ends with
\* updateLoadingStatus(false), which calls updateStatusBar() itself.
FooterSettles(t) ==
  /\ \/ /\ \E ok \in BOOLEAN : MutationSettles(t, ok)
        /\ UNCHANGED ret
        /\ arg' = "other"
     \/ \E ok \in BOOLEAN, files \in Listings("M") \cup {<<>>} :
          /\ RefetchSettles(t, ok, files)
          /\ ret' = IF ok THEN statusAfterRefreshUI(isLoading) ELSE ret
          /\ arg' = IF ok THEN "completed" ELSE "other"
     \/ \E ok \in BOOLEAN, files \in Listings("M") \cup {<<>>} :
          /\ RefreshSettles(t, ok, files)
          /\ ret' = statusAfterRefreshUI(FALSE)
          /\ arg' = IF ok THEN "completed" ELSE "other"
     \/ \E ok \in BOOLEAN, files \in Listings("M") \cup {<<>>} :
          /\ OpenSettles(t, ok, files)
          /\ UNCHANGED ret
          /\ arg' = "other"
     \/ /\ TitleSettles(t)
        /\ ret' = statusAfterRefreshUI(isLoading)
        /\ arg' = "completed"
  /\ FooterFrame

\* a double click on item i; navigateToFolder ends with refreshUI()
FooterDblClick(i) ==
  /\ i \in 0..(Len(currentRenderedFiles) - 1)
  /\ ev' = "navigate" /\ arg' = "other"
  /\ handleFileListDblClick(i)
  /\ ret' = IF ~flIsLoading /\ ~isLoading /\ currentRenderedFiles[i + 1].is_dir
              THEN statusAfterRefreshUI(FALSE) ELSE ret
  /\ UNCHANGED <<shellVars, tasks>>
  /\ FooterFrame

\* the Up button
FooterUp ==
  /\ ev' = "navigate" /\ arg' = "other" /\ notified' = "none"
  /\ goUp
  /\ ret' = IF ~isLoading /\ getCurrentPath(history, currentIndex) # Str0
              THEN statusAfterRefreshUI(FALSE) ELSE ret
  /\ UNCHANGED <<shellVars, tasks>>
  /\ FooterFrame

NextFooter ==
  \/ FooterOpen
  \/ FooterRefresh
  \/ FooterNewFolder
  \/ \E t \in 1..MaxTasks : FooterSettles(t)
  \/ \E i \in 0..(Len(currentRenderedFiles) - 1) : FooterDblClick(i)
  \/ FooterUp

SpecFooter == InitFooter /\ [][NextFooter]_vars

\* C31: once a successful open, refresh or mutation command has completed
\* and the gate is idle again, the status bar shows the item count computed
\* from the new entry list and the current folder.
C31_FooterRecomputed ==
  (arg = "completed" /\ ~isLoading /\ currentArchivePath # "")
    => ret = ItemCount(getFileStats(currentFiles, getCurrentPath(history, currentIndex)).count)

----------------------------------------------------------------------------
(* getParentPath on its own: applied to any short string of segment          *)
(* characters and slashes.                                                    *)

\* longest path handed to getParentPath
MaxPathLen == 6

\* every string of up to MaxPathLen characters out of "x" and "/"
ParentInputs == UNION { [1..n -> {"x", Slash}] : n \in 0..MaxPathLen }

\* the state of the application at its start, but for the argument of the call
InitCall ==
  /\ InitHistory
  /\ currentArchivePath = ""
  /\ currentFiles = << >>
  /\ isLoading = FALSE
  /\ flIsLoading = FALSE
  /\ selectedFiles = {}
  /\ lastClickedIndex = -1
  /\ currentRenderedFiles = << >>
  /\ pathNav = None
  /\ dom = {}
  /\ timers = {}
  /\ view = "home"
  /\ toolbarEnabled = FALSE
  /\ clipboard = "none"
  /\ tasks = [t \in 1..MaxTasks |-> NoTask]
  /\ ev = "init"
  /\ notified = "none"
  /\ ret = None
  /\ pre = NoCall
  /\ rt = RtIdle

InitParent ==
  /\ InitCall
  /\ \E p \in ParentInputs : arg = [currentPath |-> p]

CallGetParentPath ==
  /\ ev = "init"
  /\ ev' = "getParentPath"
  /\ ret' = Some(getParentPathCall(arg.currentPath))
  /\ UNCHANGED <<navVars, appVars, listVars, shellVars, tasks, notified, arg, pre, rt>>

NextParent == CallGetParentPath

SpecParent == InitParent /\ [][NextParent]_vars

\* a normalized FolderPath: the root, or non-empty segments each followed by
\* a slash
isFolderPath(p) ==
  \/ p = Str0
  \/ /\ p[1] # Slash
     /\ endsWithSlash(p)
     /\ \A i \in 1..(Len(p) - 1) : ~(p[i] = Slash /\ p[i + 1] = Slash)

\* C34: getParentPath undoes one level of descent: for a normalized folder f
\* and a non-empty segment n without slash the parent of f + n + "/" is f;
\* the parent of "" is ""; and "/" is returned only when, one trailing slash
\* taken off, the only slash left is the first character.
C34_ParentInvertsDescent ==
  ev = "getParentPath"
    => LET p == arg.currentPath
           q == IF endsWithSlash(p) THEN dropLast(p) ELSE p
       IN  /\ \A k \in 0..(Len(p) - 2) :
                LET f == SubSeq(p, 1, k)
                    n == SubSeq(p, k + 1, Len(p) - 1)
                IN  (isFolderPath(f) /\ endsWithSlash(p) /\ ~includesSlash(n))
                      => ret = Some(f)
           /\ p = Str0 => ret = Some(Str0)
           /\ ret = Some(<<Slash>>)
                => /\ Len(q) >= 1 /\ q[1] = Slash
                   /\ \A i \in 2..Len(q) : q[i] # Slash

\* the parent of x/x/ is x/
C34_Witness ==
  /\ ev = "getParentPath"
  /\ arg = [currentPath |-> <<"x", Slash, "x", Slash>>]
  /\ ret = Some(<<"x", Slash>>)

----------------------------------------------------------------------------
(* getFileStats on its own: applied to the entry lists and folders that      *)
(* filterFilesByFolder is applied to.                                         *)

CallGetFileStats ==
  /\ ev = "init"
  /\ ev' = "getFileStats"
  /\ ret' = Some(getFileStats(arg.files, arg.currentFolder))
  /\ UNCHANGED <<navVars, appVars, listVars, shellVars, tasks, notified, arg, pre, rt>>

NextStats == CallGetFileStats

SpecStats == InitFilter /\ [][NextStats]_vars

\* C38: for every entry list and normalized folder the item count of
\* getFileStats is the number of entries filterFilesByFolder returns for the
\* folder, the number of visible entries.
C38_CountIsVisibleEntries ==
  ev = "getFileStats"
    => ret = Some([count |-> Len(filterFilesByFolder(arg.files, arg.currentFolder))])

----------------------------------------------------------------------------
(* navigateToFolder called with any short string, as the name of a directory *)
(* entry may be, and the navigation buttons, on an opened archive.           *)

\* longest string handed to navigateToFolder
MaxFolderLen == 4

\* every string of up to MaxFolderLen characters out of "x" and "/"
FolderInputs == UNION { [1..n -> {"x", Slash}] : n \in 0..MaxFolderLen }

\* navigateToFolder(folderPath)
NavigateTo(folderPath) ==
  /\ ev' = "navigate" /\ notified' = "none"
  /\ applyNav(navigateToFolder(isLoading, history, currentIndex, folderPath))
  /\ AppFrame

NextFolders ==
  \/ \E folderPath \in FolderInputs : NavigateTo(folderPath)
  \/ UpClick
  \/ BackClick
  \/ ForwardClick

SpecFolders == InitCommand /\ [][NextFolders]_vars

\* C39: every entry of the history is the empty string or a string that does
\* not begin with a slash and ends with one; the Up button never stores "/".
C39_HistoryEntriesNormalized ==
  \A k \in 1..Len(history) :
    \/ history[k] = Str0
    \/ (history[k][1] # Slash /\ endsWithSlash(history[k]))

\* x/x/ was entered, written with leading slashes, and the Up button pressed
\* from it
C39_Witness ==
  /\ ev = "navigate"
  /\ history = << Str0, <<"x", Slash, "x", Slash>>, <<"x", Slash>> >>
  /\ currentIndex = 2

----------------------------------------------------------------------------
(* Double clicks in an opened archive, one of them an archive that lists its *)
(* root as a directory entry "/".                                            *)

MarkerTree ==
  << File(<<Slash>>, TRUE), File(PathX, TRUE), File(PathXY, FALSE), File(PathZ, FALSE) >>

NextDblClick ==
  \/ \E i \in 0..(Len(currentRenderedFiles) - 1) : ItemDblClick(i)
  \/ \E item \in dom : ItemClick(item)
  \/ UpClick
  \/ BackClick
  \/ ForwardClick

SpecDblClick == InitShowing({DeepTree, MarkerTree}) /\ [][NextDblClick]_vars

\* the history up to the cursor: what addPath keeps before it appends
keptHistory == SubSeq(history, 1, currentIndex + 1)

====
